---- MODULE Spec2Model ----
(***************************************************************************)
(* Model of hostphot/utils.py: the survey registry (config_df), the header *)
(* extractors, the uncertainty model and the magnitude calculator.         *)
(*                                                                         *)
(* Strings that the code splits or iterates over are sequences of          *)
(* one-character strings; a filter name is such a sequence.  Real numbers   *)
(* are fixed-point integers: magnitudes and configuration numbers in units  *)
(* of 1/MS, fluxes in units of 1/FS.                                        *)
(***************************************************************************)
EXTENDS Integers, Sequences, FiniteSets, TLC

\* ------------------------------------------------------------------ scales
\* magnitudes, zero points, pixel scales: 1 unit = 1e-4
MS == 10^4
\* fluxes, gains, read noises, exposure times: 1 unit = 1e-2
FS == 10^2

\* ------------------------------------------------------------ result values
Ok(v) == [ok |-> TRUE, err |-> "none", val |-> v]
Err(e) == [ok |-> FALSE, err |-> e, val |-> <<>>]

\* Python's None, as a filter argument
None == <<"None">>

\* ------------------------------------------------------------ string helpers
\* c in s, for a one-character c
HasChar(s, c) == \E i \in 1..Len(s) : s[i] = c

\* s.split(c): the pieces of s between occurrences of the character c
RECURSIVE SplitFrom(_, _, _, _)
SplitFrom(s, c, i, cur) ==
    IF i > Len(s) THEN <<cur>>
    ELSE IF s[i] = c THEN <<cur>> \o SplitFrom(s, c, i + 1, <<>>)
    ELSE SplitFrom(s, c, i + 1, Append(cur, s[i]))

Split(s, c) == SplitFrom(s, c, 1, <<>>)

\* iterating over a str yields its one-character substrings
Chars(s) == [i \in 1..Len(s) |-> <<s[i]>>]

\* sub in s (substring test)
Contains(s, sub) ==
    \E i \in 0..(Len(s) - Len(sub)) :
        \A j \in 1..Len(sub) : s[i + j] = sub[j]

\* the set of elements of a sequence
Range(s) == {s[i] : i \in 1..Len(s)}

\* min of two integers
Min2(a, b) == IF a < b THEN a ELSE b

\* ------------------------------------------------------------- filter names
f_g == <<"g">>
f_r == <<"r">>
f_i == <<"i">>
f_z == <<"z">>
f_y == <<"y">>
f_Y == <<"Y">>
f_u == <<"u">>
f_v == <<"v">>
f_J == <<"J">>
f_H == <<"H">>
f_K == <<"K">>
f_Z == <<"Z">>
f_Ks == <<"K", "s">>
f_FUV == <<"F", "U", "V">>
f_NUV == <<"N", "U", "V">>
f_W1 == <<"W", "1">>
f_W2 == <<"W", "2">>
f_W3 == <<"W", "3">>
f_W4 == <<"W", "4">>
f_I1 == <<"I", "1">>
f_I2 == <<"I", "2">>
f_M24 == <<"M", "2", "4">>
f_U == <<"U">>
f_F378 == <<"F", "3", "7", "8">>
f_F395 == <<"F", "3", "9", "5">>
f_F200W == <<"F", "2", "0", "0", "W">>
\* HST filters name the instrument: <camera>_<instrument>_<filter>
f_HST_IR == <<"W", "3", "_", "I", "R", "_", "F", "1">>
f_HST_UVIS == <<"W", "3", "_", "U", "V", "I", "S", "_", "F", "2">>
f_HST_bad == <<"W", "3", "_", "X", "_", "F", "9">>

\* ------------------------------------------------------------ number tokens
\* float(token): the numbers that occur in the configuration, in units of 1/MS
FloatTab ==
    [t \in {"25", "30", "22.5", "18.82", "20.08", "28.0", "0.25", "0.263",
            "0.396", "1.5", "1.0", "1.375", "2.75", "0.262", "0.6", "2.45",
            "0.339", "0.04", "0.13", "0.5", "0.55", "0.4", "0.031"} |->
        CASE t = "25" -> 250000
          [] t = "30" -> 300000
          [] t = "22.5" -> 225000
          [] t = "18.82" -> 188200
          [] t = "20.08" -> 200800
          [] t = "28.0" -> 280000
          [] t = "0.25" -> 2500
          [] t = "0.263" -> 2630
          [] t = "0.396" -> 3960
          [] t = "1.5" -> 15000
          [] t = "1.0" -> 10000
          [] t = "1.375" -> 13750
          [] t = "2.75" -> 27500
          [] t = "0.262" -> 2620
          [] t = "0.6" -> 6000
          [] t = "2.45" -> 24500
          [] t = "0.339" -> 3390
          [] t = "0.04" -> 400
          [] t = "0.13" -> 1300
          [] t = "0.5" -> 5000
          [] t = "0.55" -> 5500
          [] t = "0.4" -> 4000
          [] t = "0.031" -> 310]

\* float(s) of a cell piece holding one number token
Float(s) == FloatTab[s[1]]

\* ---------------------------------------------------------------- registry
Row(s, filters, zp, ps) ==
    [survey |-> s, filters |-> filters, zp |-> zp, pixel_scale |-> ps]

\* The rows of the static configuration (filters/config.txt) as read from the
\* file: one-letter filters are written without commas (grizy), longer names
\* are comma-separated (FUV,NUV); zp is "header" when the zero point is read
\* from the image.
config_rows ==
    << Row("PS1", f_g \o f_r \o f_i \o f_z \o f_y, <<"25">>, <<"0.25">>),
       Row("DES", f_g \o f_r \o f_i \o f_z \o f_Y, <<"30">>, <<"0.263">>),
       Row("SDSS", f_u \o f_g \o f_r \o f_i \o f_z, <<"22.5">>, <<"0.396">>),
       Row("GALEX", f_FUV \o <<",">> \o f_NUV, <<"18.82", ",", "20.08">>,
           <<"1.5">>),
       Row("2MASS", f_J \o <<",">> \o f_H \o <<",">> \o f_Ks, <<"header">>,
           <<"1.0">>),
       Row("WISE", f_W1 \o <<",">> \o f_W2 \o <<",">> \o f_W3 \o <<",">> \o f_W4,
           <<"header">>, <<"1.375">>),
       Row("unWISE",
           f_W1 \o <<",">> \o f_W2 \o <<",">> \o f_W3 \o <<",">> \o f_W4,
           <<"22.5">>, <<"2.75">>),
       Row("LegacySurvey", f_g \o f_r \o f_i \o f_z, <<"22.5">>, <<"0.262">>),
       Row("Spitzer", f_I1 \o <<",">> \o f_I2 \o <<",">> \o f_M24, <<"header">>,
           <<"0.6", ",", "0.6", ",", "2.45">>),
       Row("VISTA",
           f_Z \o <<",">> \o f_Y \o <<",">> \o f_J \o <<",">> \o f_H
               \o <<",">> \o f_Ks,
           <<"header">>, <<"0.339">>),
       \* the HST filter is given by the caller; the column holds a dash
       Row("HST", <<"-">>, <<"header">>, <<"0.04", ",", "0.13">>),
       Row("SkyMapper", f_u \o f_v \o f_g \o f_r \o f_i \o f_z, <<"header">>,
           <<"0.5">>),
       Row("SPLUS",
           f_U \o <<",">> \o f_F378 \o <<",">> \o f_F395 \o <<",">> \o f_g
               \o <<",">> \o f_r,
           <<"header">>, <<"0.55">>),
       Row("UKIDSS", f_Z \o f_Y \o f_J \o f_H \o f_K, <<"header">>, <<"0.4">>),
       \* surveys added to the configuration without an error model
       Row("JWST", f_F200W, <<"28.0">>, <<"0.031">>),
       Row("NEOWISE", f_W1 \o <<",">> \o f_W2, <<"22.5">>, <<"2.75">>) >>

\* survey names a caller may pass that the configuration does not hold
UnregisteredSurveys == {"LSST", "ps1"}

\* "WISE" in survey
HasWISE(survey) == survey \in {"WISE", "unWISE", "NEOWISE"}

\* -------------------------------------------------- ordered dict (pairs list)
DictHas(d, k) == \E i \in 1..Len(d) : d[i][1] = k
DictGet(d, k) == d[CHOOSE i \in 1..Len(d) : d[i][1] = k][2]
DictKeys(d) == {d[i][1] : i \in 1..Len(d)}

\* d[k] = v: overwrite in place, or append a new key
DictSet(d, k, v) ==
    IF DictHas(d, k)
    THEN [i \in 1..Len(d) |-> IF d[i][1] = k THEN <<k, v>> ELSE d[i]]
    ELSE Append(d, <<k, v>>)

\* {k: v for k, v in zip(keys, vals)}
RECURSIVE DictFromZip(_, _)
DictFromZip(keys, vals) ==
    IF Len(keys) = 0 \/ Len(vals) = 0 THEN <<>>
    ELSE LET n == Min2(Len(keys), Len(vals))
             rest == DictFromZip(SubSeq(keys, 1, n - 1), SubSeq(vals, 1, n - 1))
         IN DictSet(rest, keys[n], vals[n])

\* ------------------------------------------------------- registry functions
\* config_df: the table loaded once at import
config_df == config_rows

\* config_df[config_df.survey == survey]
SurveyDf(survey) == SelectSeq(config_df, LAMBDA row : row.survey = survey)

\* a validity check that lets every survey name through
check_survey_validity_any(survey) == Ok(TRUE)

\* assert survey in surveys
check_survey_validity(survey) ==
    IF \E i \in 1..Len(config_df) : config_df[i].survey = survey
    THEN Ok(TRUE)
    ELSE Err("AssertionError")

\* Python values that are a str, a list of str, or None
PyNone == [t |-> "None", v |-> <<>>]
PyStr(s) == [t |-> "str", v |-> s]
PyList(l) == [t |-> "list", v |-> l]

\* the items a for-loop or zip() draws from a str or a list
Iter(x) == IF x.t = "str" THEN Chars(x.v) ELSE x.v

get_survey_filters(survey) ==
    LET chk == check_survey_validity(survey)
        survey_df == SurveyDf(survey)
    IN IF ~chk.ok THEN chk
       ELSE IF survey = "HST" THEN Ok(PyNone)
       ELSE IF Len(survey_df) = 0 THEN Err("IndexError")
       ELSE LET filters == survey_df[1].filters
            IN IF HasChar(filters, ",")
               THEN Ok(PyList(Split(filters, ",")))
               ELSE Ok(PyStr(filters))

\* the zero points as a dict (ordered pairs, values in 1/MS), or "header"
survey_zp(survey) ==
    LET chk == check_survey_validity(survey)
        fr == get_survey_filters(survey)
        survey_df == SurveyDf(survey)
    IN IF ~chk.ok THEN chk
       ELSE IF ~fr.ok THEN fr
       ELSE IF Len(survey_df) = 0 THEN Err("IndexError")
       ELSE LET zps == survey_df[1].zp
                filters == fr.val
            IN IF zps = <<"header">> THEN Ok([t |-> "str", v |-> zps])
               ELSE IF filters.t = "None" THEN Err("TypeError")
               ELSE IF HasChar(zps, ",")
               THEN LET l == Split(zps, ",")
                    IN Ok([t |-> "dict",
                           v |-> DictFromZip(Iter(filters),
                                             [i \in 1..Len(l) |-> Float(l[i])])])
               ELSE Ok([t |-> "dict",
                        v |-> DictFromZip(Iter(filters),
                                          [i \in 1..Len(Iter(filters)) |->
                                              Float(zps)])])

\* the result of survey_pixel_scale: the scale (1/MS) and what was printed
PsOut(scale, printed) == [scale |-> scale, printed |-> printed]

\* a variant without the fallback message: the first scale, silently
survey_pixel_scale_silent(survey, filt) ==
    LET chk == check_survey_validity(survey)
    IN IF ~chk.ok THEN chk
       ELSE Ok(PsOut(Float(Split(SurveyDf(survey)[1].pixel_scale, ",")[1]),
                     <<>>))

survey_pixel_scale(survey, filt) ==
    LET chk == check_survey_validity(survey)
        survey_df == SurveyDf(survey)
    IN IF ~chk.ok THEN chk
       ELSE IF Len(survey_df) = 0 THEN Err("IndexError")
       ELSE
       LET pixel_scale == survey_df[1].pixel_scale
           pieces == Split(pixel_scale, ",")
           scales == [i \in 1..Len(pieces) |-> Float(pieces[i])]
       IN IF Len(pieces) > 1
          THEN LET fr == IF survey = "HST"
                         THEN Ok(IF filt = None THEN PyNone ELSE PyStr(filt))
                         ELSE get_survey_filters(survey)
               IN IF ~fr.ok THEN fr
                  ELSE IF fr.val.t = "None" THEN Err("TypeError")
                  ELSE
                  LET pixel_scale_dict == DictFromZip(Iter(fr.val), scales)
                  IN IF DictHas(pixel_scale_dict, filt)
                     THEN Ok(PsOut(DictGet(pixel_scale_dict, filt), <<>>))
                     ELSE IF survey = "HST"
                     THEN IF Contains(filt, <<"U", "V", "I", "S">>)
                          THEN IF Len(pixel_scale_dict) < 1
                               THEN Err("IndexError")
                               ELSE Ok(PsOut(pixel_scale_dict[1][2], <<>>))
                          ELSE IF Contains(filt, <<"I", "R">>)
                          THEN IF Len(pixel_scale_dict) < 2
                               THEN Err("IndexError")
                               ELSE Ok(PsOut(pixel_scale_dict[2][2], <<>>))
                          ELSE Err("ValueError")
                     ELSE IF Len(pixel_scale_dict) < 1 THEN Err("IndexError")
                     ELSE Ok(PsOut(pixel_scale_dict[1][2],
                                   << <<"No pixel scale found for filter", filt>>,
                                      <<"Using the pixel scale of filter",
                                        pixel_scale_dict[1][1]>> >>))
          ELSE Ok(PsOut(Float(pixel_scale), <<>>))

\* ------------------------------------------------------------------ numbers
\* A number is finite (k = "fin", v its fixed-point value), or one of the
\* IEEE values inf, -inf, nan that numpy produces, or a raised exception
\* (k = "raise") that every later operation passes on.  np tells a numpy
\* scalar from a Python float: numpy divides by zero with a warning, Python
\* raises ZeroDivisionError.
Mk(k, v, np) == [k |-> k, v |-> v, np |-> np, e |-> "none"]
PyF(v) == Mk("fin", v, FALSE)
NpF(v) == Mk("fin", v, TRUE)
Raise(e) == [k |-> "raise", v |-> 0, np |-> FALSE, e |-> e]
IsRaise(a) == a.k = "raise"
IsFin(a) == a.k = "fin"
IsNonFinite(a) == a.k \in {"inf", "ninf", "nan"}

AbsI(x) == IF x < 0 THEN -x ELSE x
SgnI(x) == IF x < 0 THEN -1 ELSE IF x > 0 THEN 1 ELSE 0

\* <<floor(a*b/c), (a*b) % c>> for a, b >= 0 and 0 < c < 2^30, without forming
\* a*b: double the result for b \div 2 and add a once more when b is odd
RECURSIVE MulDivQR(_, _, _)
MulDivQR(a, b, c) ==
    IF b = 0 THEN <<0, 0>>
    ELSE LET h == MulDivQR(a, b \div 2, c)
             q2 == 2 * h[1] + (2 * h[2]) \div c
             r2 == (2 * h[2]) % c
         IN IF b % 2 = 0 THEN <<q2, r2>>
            ELSE <<q2 + (a \div c) + ((r2 + (a % c)) \div c), (r2 + (a % c)) % c>>

MulDiv(a, b, c) == MulDivQR(a, b, c)[1]

\* a*b/c rounded towards zero
SMulDiv(a, b, c) == SgnI(a) * SgnI(b) * MulDiv(AbsI(a), AbsI(b), c)

\* floor(sqrt(n)) for 0 <= n < 2^31
RECURSIVE SqrtBS(_, _, _)
SqrtBS(n, lo, hi) ==
    IF hi - lo <= 1 THEN lo
    ELSE LET mid == (lo + hi) \div 2
         IN IF mid * mid <= n THEN SqrtBS(n, mid, hi) ELSE SqrtBS(n, lo, mid)

ISqrt(n) == SqrtBS(n, 0, 46341)

\* the sign of a number that is not nan: -1, 0 or 1
Sgn(a) == IF a.k = "inf" THEN 1 ELSE IF a.k = "ninf" THEN -1 ELSE SgnI(a.v)
InfOf(sign, np) == Mk(IF sign > 0 THEN "inf" ELSE "ninf", 0, np)

NNeg(a) ==
    IF IsRaise(a) THEN a
    ELSE IF a.k = "inf" THEN Mk("ninf", 0, a.np)
    ELSE IF a.k = "ninf" THEN Mk("inf", 0, a.np)
    ELSE Mk(a.k, -a.v, a.np)

NAdd(a, b) ==
    IF IsRaise(a) THEN a ELSE IF IsRaise(b) THEN b
    ELSE LET np == a.np \/ b.np
         IN IF a.k = "nan" \/ b.k = "nan" THEN Mk("nan", 0, np)
            ELSE IF IsFin(a) /\ IsFin(b) THEN Mk("fin", a.v + b.v, np)
            ELSE IF IsFin(a) THEN Mk(b.k, 0, np)
            ELSE IF IsFin(b) THEN Mk(a.k, 0, np)
            ELSE IF a.k = b.k THEN Mk(a.k, 0, np)
            ELSE Mk("nan", 0, np)

NSub(a, b) == NAdd(a, NNeg(b))

\* a*b, the product of the fixed-point values divided by sc
NMul(a, b, sc) ==
    IF IsRaise(a) THEN a ELSE IF IsRaise(b) THEN b
    ELSE LET np == a.np \/ b.np
         IN IF a.k = "nan" \/ b.k = "nan" THEN Mk("nan", 0, np)
            ELSE IF IsFin(a) /\ IsFin(b)
            THEN Mk("fin", SMulDiv(a.v, b.v, sc), np)
            ELSE IF Sgn(a) = 0 \/ Sgn(b) = 0 THEN Mk("nan", 0, np)
            ELSE InfOf(Sgn(a) * Sgn(b), np)

\* a/b, the quotient of the fixed-point values multiplied by sc
NDiv(a, b, sc) ==
    IF IsRaise(a) THEN a ELSE IF IsRaise(b) THEN b
    ELSE LET np == a.np \/ b.np
         IN IF IsFin(b) /\ b.v = 0 /\ ~np THEN Raise("ZeroDivisionError")
            ELSE IF a.k = "nan" \/ b.k = "nan" THEN Mk("nan", 0, np)
            ELSE IF IsFin(b) /\ b.v = 0
            THEN IF Sgn(a) = 0 THEN Mk("nan", 0, np) ELSE InfOf(Sgn(a), np)
            ELSE IF IsFin(a) /\ IsFin(b)
            THEN Mk("fin", SMulDiv(a.v, sc, AbsI(b.v)) * SgnI(b.v), np)
            ELSE IF IsFin(a) THEN Mk("fin", 0, np)
            ELSE IF IsFin(b) THEN InfOf(Sgn(a) * Sgn(b), np)
            ELSE Mk("nan", 0, np)

\* np.sqrt(a) of a value in units 1/sc^2, the result in units 1/sc
NSqrt(a) ==
    IF IsRaise(a) THEN a
    ELSE IF a.k = "inf" THEN Mk("inf", 0, TRUE)
    ELSE IF a.k \in {"nan", "ninf"} THEN Mk("nan", 0, TRUE)
    ELSE IF a.v < 0 THEN Mk("nan", 0, TRUE)
    ELSE Mk("fin", ISqrt(a.v), TRUE)

\* np.abs(a)
NAbs(a) ==
    IF IsRaise(a) THEN a
    ELSE IF a.k \in {"inf", "ninf"} THEN Mk("inf", 0, TRUE)
    ELSE IF a.k = "nan" THEN Mk("nan", 0, TRUE)
    ELSE Mk("fin", AbsI(a.v), TRUE)

\* ------------------------------------------------------------- logarithms
\* floor(log2(v)) for an integer v >= 1
RECURSIVE ILog2(_)
ILog2(v) == IF v < 2 THEN 0 ELSE 1 + ILog2(v \div 2)

\* the fractional bits of log2(m / 2^14), m in [2^14, 2^15), by squaring
RECURSIVE Log2Frac(_, _)
Log2Frac(m, bits) ==
    IF bits = 0 THEN 0
    ELSE LET sq == (m * m) \div (2^14)
         IN IF sq >= 2^15
            THEN 2^(bits - 1) + Log2Frac(sq \div 2, bits - 1)
            ELSE Log2Frac(sq, bits - 1)

\* log2(v) in units of 2^-12, for an integer v >= 1
Log2Fix(v) ==
    LET e == ILog2(v)
        m == IF e >= 14 THEN v \div (2^(e - 14)) ELSE v * 2^(14 - e)
    IN e * 2^12 + Log2Frac(m, 12)

\* the 14-bit fixed-point values of 2^(2^-i), i = 1..12
Exp2Tab == <<23170, 19484, 17867, 17109, 16743, 16562, 16473, 16428,
             16406, 16395, 16390, 16387>>

\* 2^(f / 2^12) in units of 2^-14, for 0 <= f < 2^12
RECURSIVE Exp2Frac(_, _, _)
Exp2Frac(f, i, m) ==
    IF i > 12 THEN m
    ELSE IF (f \div 2^(12 - i)) % 2 = 1
    THEN Exp2Frac(f, i + 1, (m * Exp2Tab[i]) \div 2^14)
    ELSE Exp2Frac(f, i + 1, m)

\* 2^(y / 2^12) for an integer y (floor division keeps 0 <= f < 2^12),
\* multiplied by sc
Exp2Fix(y, sc) ==
    LET e == y \div 2^12
        f == y % 2^12
        m == Exp2Frac(f, 1, 2^14)
    IN IF e >= 0 THEN MulDiv(m, sc * 2^e, 2^14)
       ELSE MulDiv(m, sc, 2^14 * 2^(-e))

\* np.log10(a) for a flux in units 1/FS; the result in units 1/MS
\* (log10(x) = log2(x) * 0.30103)
NLog10(a) ==
    IF IsRaise(a) THEN a
    ELSE IF a.k = "inf" THEN Mk("inf", 0, TRUE)
    ELSE IF a.k \in {"nan", "ninf"} THEN Mk("nan", 0, TRUE)
    ELSE IF a.v < 0 THEN Mk("nan", 0, TRUE)
    ELSE IF a.v = 0 THEN Mk("ninf", 0, TRUE)
    ELSE Mk("fin", SMulDiv(Log2Fix(a.v) - Log2Fix(FS), 30103, 40960), TRUE)

\* 10**x for x in units 1/MS; the result in units 1/sc
\* (10^x = 2^(x * 3.321928))
NPow10(x, sc) ==
    IF IsRaise(x) THEN x
    ELSE IF x.k = "inf" THEN Mk("inf", 0, x.np)
    ELSE IF x.k = "ninf" THEN Mk("fin", 0, x.np)
    ELSE IF x.k = "nan" THEN Mk("nan", 0, x.np)
    ELSE Mk("fin", Exp2Fix((x.v * 13607) \div 10000, sc), x.np)

\* ------------------------------------------------------------------ headers
\* A header maps keys to values; header=None is the function NoHeader.
NoHeader == ("None" :> TRUE)

\* a header read that falls back to 1.0 when the field is missing
HNum_default(header, key) ==
    IF header = NoHeader \/ key \notin DOMAIN header THEN PyF(100)
    ELSE PyF(header[key])

\* header[key] as a Python number: KeyError when absent, TypeError for None
HNum(header, key) ==
    IF header = NoHeader THEN Raise("TypeError")
    ELSE IF key \notin DOMAIN header THEN Raise("KeyError")
    ELSE PyF(header[key])

\* header[key] for a string or integer field, as a result
HGet(header, key) ==
    IF header = NoHeader THEN Err("TypeError")
    ELSE IF key \notin DOMAIN header THEN Err("KeyError")
    ELSE Ok(header[key])

\* the exception of a failed result, as a number that raises
RaiseOf(r) == Raise(r.err)

\* --------------------------------------------------------------- extractors
\* gain in units 1/FS
get_image_gain(header, survey) ==
    LET chk == check_survey_validity(survey)
    IN IF ~chk.ok THEN RaiseOf(chk)
       ELSE IF survey = "PS1" THEN HNum(header, "HIERARCH CELL.GAIN")
       ELSE IF survey = "DES" THEN HNum(header, "GAIN")
       ELSE IF survey = "SDSS" THEN PyF(100)
       ELSE IF survey = "2MASS" THEN PyF(1000)
       ELSE IF survey = "LegacySurvey" THEN PyF(100)
       ELSE IF survey = "Spitzer"
       THEN LET ins == HGet(header, "INSTRUME")
            IN IF ~ins.ok THEN RaiseOf(ins)
               ELSE IF ins.val = "IRAC"
               THEN NMul(PyF(380), HNum(header, "EFCONV"), FS)
               ELSE IF ins.val = "MIPS" THEN PyF(500)
               ELSE Raise("UnboundLocalError")
       ELSE IF survey = "VISTA" THEN PyF(419)
       ELSE IF survey = "HST" THEN HNum(header, "CCDGAIN")
       ELSE IF survey = "SkyMapper" THEN HNum(header, "GAIN")
       ELSE IF survey = "SPLUS" THEN HNum(header, "GAIN")
       ELSE IF survey = "UKIDSS" THEN HNum(header, "GAIN")
       ELSE PyF(100)

\* read noise per pixel in units 1/FS
get_image_readnoise(header, survey) ==
    LET chk == check_survey_validity(survey)
    IN IF ~chk.ok THEN RaiseOf(chk)
       ELSE IF survey = "PS1" THEN HNum(header, "HIERARCH CELL.READNOISE")
       ELSE IF survey = "DES" THEN PyF(700)
       ELSE IF survey = "SDSS" THEN PyF(0)
       ELSE IF survey = "2MASS"
       THEN NMul(PyF(450), NSqrt(PyF(6 * FS * FS)), FS)
       ELSE IF survey = "LegacySurvey" THEN PyF(100)
       ELSE IF survey = "Spitzer"
       THEN LET ins == HGet(header, "INSTRUME")
            IN IF ~ins.ok THEN RaiseOf(ins)
               ELSE IF ins.val = "IRAC"
               THEN LET readnoise_dict ==
                            << <<1, 1600>>, <<2, 1200>>, <<3, 1000>>,
                               <<4, 800>> >>
                        channel == HGet(header, "CHNLNUM")
                    IN IF ~channel.ok THEN RaiseOf(channel)
                       ELSE IF ~DictHas(readnoise_dict, channel.val)
                       THEN Raise("KeyError")
                       ELSE PyF(DictGet(readnoise_dict, channel.val))
               ELSE IF ins.val = "MIPS" THEN PyF(4000)
               ELSE Raise("UnboundLocalError")
       ELSE IF survey = "VISTA" THEN PyF(2400)
       ELSE IF survey = "HST" THEN HNum(header, "PCTERNOI")
       ELSE IF survey = "SkyMapper" THEN PyF(500)
       ELSE IF survey = "SPLUS" THEN HNum(header, "HIERARCH OAJ QC NCNOISE")
       ELSE IF survey = "UKIDSS" THEN HNum(header, "READNOIS")
       ELSE PyF(0)

\* exposure time in units 1/FS
get_image_exptime(header, survey) ==
    LET chk == check_survey_validity(survey)
    IN IF ~chk.ok THEN RaiseOf(chk)
       ELSE IF survey \in {"PS1", "DES", "GALEX", "VISTA", "Spitzer", "HST",
                           "SkyMapper"}
       THEN HNum(header, "EXPTIME")
       ELSE IF survey = "WISE"
       THEN LET band == HGet(header, "BAND")
            IN IF ~band.ok THEN RaiseOf(band)
               ELSE IF band.val \in {1, 2} THEN PyF(770)
               ELSE IF band.val \in {3, 4} THEN PyF(880)
               ELSE Raise("UnboundLocalError")
       ELSE IF survey = "2MASS" THEN PyF(780)
       ELSE IF survey = "LegacySurvey" THEN PyF(100)
       ELSE IF survey = "SPLUS" THEN HNum(header, "TEXPOSED")
       ELSE IF survey = "UKIDSS"
       THEN NMul(HNum(header, "EXP_TIME"), HNum(header, "NEXP"), 1)
       ELSE PyF(100)

\* ------------------------------------------------------ HST reference tables
i_IR == <<"I", "R">>
i_UVIS == <<"U", "V", "I", "S">>
i_UVIS2 == <<"U", "V", "I", "S", "2">>

\* filters/HST/<instrument>_aper*: the tabulated encircled-energy curves.
\* apertures are the radii of the APER# columns (1/FS); each row gives the
\* fractions (1/MS) of one filter
HSTAperTable ==
    [apertures |-> <<100, 300, 600>>,
     rows |-> << [inst |-> i_IR, filter |-> <<"F", "1">>,
                  ee |-> <<6000, 8500, 9500>>],
                 [inst |-> i_UVIS2, filter |-> <<"F", "2">>,
                  ee |-> <<7000, 9000, 9800>>] >>]

\* filters/HST/<instrument>_err.txt: PHOTFLAM and its error per filter
HSTErrTable ==
    << [inst |-> i_IR, filter |-> <<"F", "1">>, photflam |-> 15000,
        err |-> 150],
       [inst |-> i_UVIS2, filter |-> <<"F", "2">>, photflam |-> 20000,
        err |-> 300] >>

\* np.interp(x, xp, fp) for increasing xp: linear, clamped at both ends
RECURSIVE Interp(_, _, _, _)
Interp(x, xp, fp, i) ==
    IF x <= xp[1] THEN fp[1]
    ELSE IF x >= xp[Len(xp)] THEN fp[Len(fp)]
    ELSE IF x <= xp[i + 1]
    THEN fp[i] + ((fp[i + 1] - fp[i]) * (x - xp[i])) \div (xp[i + 1] - xp[i])
    ELSE Interp(x, xp, fp, i + 1)

\* the aperture correction (1/MS) for an HST filter and aperture area.
\* glob_ok: whether glob.glob accepts the Path object it is given (it raises
\* TypeError where it does not)
correct_HST_aperture(filt, ap_area, header, glob_ok) ==
    IF filt = None THEN Raise("AttributeError")
    ELSE
    LET filt_split == Split(filt, "_")
    IN IF Len(filt_split) < 2 THEN Raise("IndexError")
       ELSE
       LET fname == filt_split[Len(filt_split)]
           ins0 == filt_split[Len(filt_split) - 1]
           aper == HGet(header, "APERTURE")
       IN IF ins0 = i_UVIS /\ ~aper.ok THEN RaiseOf(aper)
          ELSE
          LET instrument == IF ins0 = i_UVIS THEN aper.val ELSE ins0
              ap_radius == NSqrt(NDiv(ap_area, PyF(31416), 10^6))
              rows == SelectSeq(HSTAperTable.rows,
                                LAMBDA row : row.inst = instrument)
              frows == SelectSeq(rows, LAMBDA row : row.filter = fname)
          IN IF IsRaise(ap_radius) THEN ap_radius
             ELSE IF ~glob_ok THEN Raise("TypeError")
             ELSE IF Len(rows) = 0 THEN Raise("IndexError")
             ELSE IF Len(frows) = 0 THEN Raise("IndexError")
             ELSE
             \* cont_apertures = 0.00, 0.01, ..., 8.99: the grid point
             \* closest to the radius
             LET ind == IF ~IsFin(ap_radius) THEN 0
                        ELSE Min2(ap_radius.v, 899)
             IN NpF(Interp(ind, HSTAperTable.apertures, frows[1].ee, 1))

\* the magnitude error (1/MS) of the HST zero point
get_HST_err(filt, header) ==
    IF filt = None THEN Raise("AttributeError")
    ELSE
    LET filt_split == Split(filt, "_")
    IN IF Len(filt_split) < 2 THEN Raise("IndexError")
       ELSE
       LET fname == filt_split[Len(filt_split)]
           ins0 == filt_split[Len(filt_split) - 1]
           aper == HGet(header, "APERTURE")
       IN IF ins0 = i_UVIS /\ ~aper.ok THEN RaiseOf(aper)
          ELSE
          LET instrument == IF ins0 = i_UVIS THEN aper.val ELSE ins0
              rows == SelectSeq(HSTErrTable,
                                LAMBDA row : row.inst = instrument)
              frows == SelectSeq(rows, LAMBDA row : row.filter = fname)
          IN IF Len(rows) = 0 THEN Raise("FileNotFoundError")
             ELSE IF Len(frows) = 0 THEN Raise("IndexError")
             ELSE NAbs(NDiv(NMul(PyF(25000), NpF(frows[1].err), 1),
                            NMul(NpF(frows[1].photflam), NpF(23026), MS), 1))

\* -------------------------------------------------------- uncertainty model
\* the first raised exception of a, else b (statements run in order)
Then(a, b) == IF IsRaise(a) THEN a ELSE b

\* floor(sqrt(a^2 + b^2)) for a, b >= 0; large values are scaled down first
RECURSIVE Hyp(_, _)
Hyp(a, b) ==
    IF a > 30000 \/ b > 30000 THEN 16 * Hyp(a \div 16, b \div 16)
    ELSE ISqrt(a * a + b * b)
\* a variant that combines two error terms by their difference
Quad_difference(a, b) ==
    IF IsRaise(a) THEN a ELSE IF IsRaise(b) THEN b
    ELSE IF IsFin(a) /\ IsFin(b) THEN Mk("fin", AbsI(AbsI(b.v) - AbsI(a.v)), TRUE)
    ELSE Mk("nan", 0, TRUE)

\* np.sqrt(a**2 + b**2) for magnitude errors in units 1/MS
Quad(a, b) ==
    IF IsRaise(a) THEN a ELSE IF IsRaise(b) THEN b
    ELSE IF a.k = "nan" \/ b.k = "nan" THEN Mk("nan", 0, TRUE)
    ELSE IF IsFin(a) /\ IsFin(b) THEN Mk("fin", Hyp(AbsI(a.v), AbsI(b.v)), TRUE)
    ELSE Mk("inf", 0, TRUE)

\* d[filt] for a dict of magnitude errors (1/MS): KeyError when absent
DictNum(d, k) == IF DictHas(d, k) THEN PyF(DictGet(d, k)) ELSE Raise("KeyError")

\* SDSS gain (1/1000) and dark variance (1/MS) by filter and CAMCOL 1..6
gain_dict ==
    << <<f_u, <<1620, 1595, 1590, 1600, 1470, 2170>> >>,
       <<f_g, <<3320, 3855, 3845, 3995, 4050, 4035>> >>,
       <<f_r, <<4710, 4600, 4720, 4760, 4725, 4895>> >>,
       <<f_i, <<5165, 6565, 4860, 4885, 4640, 4760>> >>,
       <<f_z, <<4745, 5155, 4885, 4775, 3480, 4690>> >> >>

dv_dict ==
    << <<f_u, <<96100, 126025, 87025, 126025, 93025, 70225>> >>,
       <<f_g, <<156025, 14400, 13225, 19600, 11025, 18225>> >>,
       <<f_r, <<18225, 10000, 13225, 13225, 8100, 9025>> >>,
       <<f_i, <<78400, 57600, 46225, 62500, 78400, 50625>> >>,
       <<f_z, <<8100, 10000, 10000, 96100, 18225, 12100>> >> >>

\* a variant whose overrides begin at the runs 1100 and 1500 themselves
sdss_gain_dv_inclusive(filt, header) ==
    LET camcol == HGet(header, "CAMCOL")
        run == HGet(header, "RUN")
    IN IF ~camcol.ok THEN [err |-> camcol.err, gain |-> 0, dv |-> 0]
       ELSE IF ~run.ok THEN [err |-> run.err, gain |-> 0, dv |-> 0]
       ELSE IF ~DictHas(gain_dict, filt) \/ camcol.val \notin 1..6
       THEN [err |-> "KeyError", gain |-> 0, dv |-> 0]
       ELSE
       LET gain0 == DictGet(gain_dict, filt)[camcol.val]
           dv0 == DictGet(dv_dict, filt)[camcol.val]
           gain == IF filt = f_u /\ camcol.val = 2 /\ run.val >= 1100
                   THEN 1825 ELSE gain0
           dv1 == IF filt = f_i /\ run.val >= 1500
                  THEN IF camcol.val = 2 THEN 62500
                       ELSE IF camcol.val = 4 THEN 75625 ELSE dv0
                  ELSE dv0
           dv2 == IF filt = f_z /\ run.val >= 1500
                  THEN IF camcol.val = 4 THEN 126025
                       ELSE IF camcol.val = 5 THEN 21025 ELSE dv1
                  ELSE dv1
       IN [err |-> "none", gain |-> gain, dv |-> dv2]

\* the SDSS gain and dark variance actually used, or the lookup's exception
sdss_gain_dv(filt, header) ==
    LET camcol == HGet(header, "CAMCOL")
        run == HGet(header, "RUN")
    IN IF ~camcol.ok THEN [err |-> camcol.err, gain |-> 0, dv |-> 0]
       ELSE IF ~run.ok THEN [err |-> run.err, gain |-> 0, dv |-> 0]
       ELSE IF ~DictHas(gain_dict, filt) \/ camcol.val \notin 1..6
       THEN [err |-> "KeyError", gain |-> 0, dv |-> 0]
       ELSE
       LET gain0 == DictGet(gain_dict, filt)[camcol.val]
           dv0 == DictGet(dv_dict, filt)[camcol.val]
           gain == IF filt = f_u /\ camcol.val = 2 /\ run.val > 1100
                   THEN 1825 ELSE gain0
           dv1 == IF filt = f_i /\ run.val > 1500
                  THEN IF camcol.val = 2 THEN 62500
                       ELSE IF camcol.val = 4 THEN 75625 ELSE dv0
                  ELSE dv0
           dv2 == IF filt = f_z /\ run.val > 1500
                  THEN IF camcol.val = 4 THEN 126025
                       ELSE IF camcol.val = 5 THEN 21025 ELSE dv1
                  ELSE dv1
       IN [err |-> "none", gain |-> gain, dv |-> dv2]

\* the GALEX magnitude error term for a background fraction frac (1/1000).
\* A negative Python float to the power 0.5 is a complex number; np.log10 of
\* the negative CPS is nan either way, which is what the result keeps.
galex_uv_err(CPS, exptime, frac) ==
    LET counts == NMul(CPS, exptime, FS)
        bkg == NMul(PyF(frac), counts, 1000)
        radicand == NAdd(NMul(counts, PyF(FS), 1), NMul(bkg, bkg, 1))
        root == IF IsRaise(radicand) THEN radicand
                ELSE IF IsFin(radicand) /\ radicand.v < 0
                THEN Mk("nan", 0, radicand.np)
                ELSE Mk(NSqrt(radicand).k, NSqrt(radicand).v, radicand.np)
        upper == NAdd(CPS, NDiv(root, exptime, FS))
    IN NMul(PyF(-25000), NSub(NLog10(CPS), NLog10(upper)), MS)

\* the magnitude error of the 2MASS branch (1/MS)
twomass_mag_err(flux, gain, ap_area, bkg_rms) ==
    LET n_c == NMul(PyF(4), ap_area, 1)
        t1 == NDiv(flux, NMul(gain, PyF(6), 1), 10^4)
        s1 == NMul(PyF(340), bkg_rms, FS)
        t2 == NMul(n_c, NMul(s1, s1, 1), FS)
        s2 == NMul(NMul(n_c, PyF(24), 1000), bkg_rms, FS)
        t3 == NMul(s2, s2, 1)
        SNR == NDiv(flux, NSqrt(NAdd(NAdd(t1, t2), t3)), FS)
    IN NDiv(PyF(10857), SNR, FS)

\* the magnitude error of the WISE branch before the zero-point term (1/MS)
wise_mag_err(flux, flux_err, filt, ap_area, bkg_rms) ==
    LET pixel_scale_ratios == << <<f_W1, 2>>, <<f_W2, 2>>, <<f_W3, 2>>,
                                 <<f_W4, 4>> >>
        f_apcor == NPow10(NMul(PyF(-4000), PyF(0), MS), MS)
        F_src == NMul(f_apcor, flux, MS)
    IN IF ~DictHas(pixel_scale_ratios, filt) THEN Raise("KeyError")
       ELSE
       LET Sin_Sout == DictGet(pixel_scale_ratios, filt)
           F_corr == NMul(ap_area, PyF(Sin_Sout * Sin_Sout), 1)
           bkg_var == NMul(NDiv(NMul(ap_area, ap_area, FS), ap_area, FS),
                           NMul(bkg_rms, bkg_rms, FS), FS)
           fe_var == NMul(flux_err, flux_err, FS)
           sigma2 == NAdd(NMul(NMul(NMul(f_apcor, f_apcor, MS), F_corr, MS),
                               NAdd(fe_var, bkg_var), FS),
                          fe_var)
           sigma_src == NSqrt(sigma2)
           \* sigma_src is in units 1/10; its square is again in 1/FS
           num == NMul(PyF(1179), NMul(sigma_src, sigma_src, 1), 1000)
           den == NMul(F_src, F_src, FS)
       IN NSqrt(NDiv(num, den, MS * MS))

\* a last branch that lets a survey without an error formula through
unsupported_survey_ignored(survey) == PyF(0)

\* lines 780-783: a survey without an error formula
unsupported_survey(survey) == Raise("Exception")

\* uncertainty_calculation, with the values the code computes on the way:
\* ret the returned flux error (1/FS) or the exception, base the term
\* 1.0857*flux_err/flux, mag_err the combined magnitude error (1/MS) and
\* flux_conv the flux of the final conversion to flux units
UncOut(ret, base, mag_err, flux_conv) ==
    [ret |-> ret, base |-> base, mag_err |-> mag_err, flux_conv |-> flux_conv]

\* a variant in which the shared term replaces the base term
shared_term_replaces(base, flux, survey, ap_area, readnoise, gain) ==
    IF survey \in {"PS1", "DES", "LegacySurvey", "Spitzer", "VISTA",
                   "SkyMapper", "SPLUS", "UKIDSS"}
    THEN Then(base,
              NDiv(NMul(PyF(10857),
                        NSqrt(NAdd(NMul(ap_area, NMul(readnoise, readnoise, 1),
                                        FS),
                                   NDiv(flux, gain, 10^4))), 1),
                   flux, 1))
    ELSE base

\* lines 540-548: the read-noise and Poisson term of the surveys that share it
shared_term(base, flux, survey, ap_area, readnoise, gain) ==
    IF survey \in {"PS1", "DES", "LegacySurvey", "Spitzer", "VISTA",
                   "SkyMapper", "SPLUS", "UKIDSS"}
    THEN Quad(base,
              NDiv(NMul(PyF(10857),
                        NSqrt(NAdd(NMul(ap_area, NMul(readnoise, readnoise, 1),
                                        FS),
                                   NDiv(flux, gain, 10^4))), 1),
                   flux, 1))
    ELSE base

\* lines 587-645: the SDSS dark-variance and gain term
sdss_term(mag_err1, flux, gd) ==
    IF gd.err # "none" THEN Raise(gd.err)
    ELSE Quad(mag_err1,
              NDiv(NMul(PyF(10857),
                        NSqrt(NAdd(PyF(gd.dv),
                                   NDiv(flux, PyF(gd.gain), 10^5))), 1),
                   flux, 1))

\* lines 722-732: the WISE zero-point term
wise_term(m, survey, filt, header) ==
    LET unc_dict == << <<f_W1, 60>>, <<f_W2, 70>>, <<f_W3, 120>>,
                       <<f_W4, 120>> >>
    IN IF IsRaise(m) THEN m
       ELSE IF survey = "unWISE" THEN Quad(m, DictNum(unc_dict, filt))
       ELSE IF survey = "WISE" THEN Quad(m, HNum(header, "MAGZPUNC"))
       ELSE Raise("UnboundLocalError")

\* lines 550-783: the magnitude error after the survey's own terms
survey_term(mag_err1, flux, flux_err, survey, filt, ap_area, header, bkg_rms, exptime, gain) ==
    IF survey = "DES"
    THEN LET unc1 == << <<f_g, 26>>, <<f_r, 29>>, <<f_i, 34>>,
                        <<f_z, 25>>, <<f_Y, 45>> >>
             unc2 == << <<f_g, 50>>, <<f_r, 40>>, <<f_i, 50>>,
                        <<f_z, 60>>, <<f_Y, 50>> >>
         IN Quad(Quad(mag_err1, DictNum(unc1, filt)), DictNum(unc2, filt))
    ELSE IF survey = "PS1"
    THEN LET unc_dict == << <<f_g, 140>>, <<f_r, 140>>, <<f_i, 150>>,
                            <<f_z, 150>>, <<f_y, 180>> >>
         IN Quad(mag_err1, DictNum(unc_dict, filt))
    ELSE IF survey = "SDSS"
    THEN sdss_term(mag_err1, flux, sdss_gain_dv(filt, header))
    ELSE IF survey = "GALEX"
    THEN IF filt \in {f_FUV, f_NUV}
         THEN Quad(mag_err1,
                   galex_uv_err(flux, exptime, IF filt = f_FUV THEN 50 ELSE 27))
         ELSE Raise("UnboundLocalError")
    ELSE IF survey = "2MASS"
    THEN twomass_mag_err(flux, gain, ap_area, bkg_rms)
    ELSE IF HasWISE(survey)
    THEN wise_term(wise_mag_err(flux, flux_err, filt, ap_area, bkg_rms),
                   survey, filt, header)
    ELSE IF survey = "LegacySurvey"
    THEN LET unc_dict == << <<f_g, 50>>, <<f_r, 39>>, <<f_i, 43>>,
                            <<f_z, 55>> >>
         IN Quad(mag_err1, DictNum(unc_dict, filt))
    ELSE IF survey = "Spitzer" THEN mag_err1
    ELSE IF survey \in {"VISTA", "UKIDSS"}
    THEN Quad(mag_err1, HNum(header, "MAGZRR"))
    ELSE IF survey = "HST"
    THEN Quad(mag_err1, get_HST_err(filt, header))
    ELSE IF survey = "SkyMapper"
    THEN Quad(mag_err1, HNum(header, "ZPTERR"))
    ELSE IF survey = "SPLUS"
    THEN LET zp_uncs == << <<f_U, 250>>, <<f_F395, 250>>, <<f_F378, 150>> >>
         IN Quad(mag_err1,
                 IF DictHas(zp_uncs, filt) THEN DictNum(zp_uncs, filt)
                 ELSE PyF(10))
    ELSE unsupported_survey(survey)

\* lines 785-787: the conversion to flux units and the return
unc_return(total, base, flux) ==
    UncOut(Then(total,
                NAbs(NMul(NMul(NMul(flux, PyF(4000), MS), NpF(23026), MS),
                          total, MS))),
           base, total, flux)

\* statement order: the first exception raised is the one that leaves
unc_total(pre, base, mag_err1, mag_err, flux) ==
    unc_return(Then(pre, Then(base, Then(mag_err1, mag_err))), base, flux)

\* lines 540-783 with the extracted values, the base term and the flux of
\* line 543
unc_terms(base, flux, flux_err, survey, filt, ap_area, header, bkg_rms, exptime, gain, readnoise, mag_err1) ==
    unc_total(Then(exptime, Then(gain, readnoise)), base, mag_err1,
              survey_term(mag_err1, flux, flux_err, survey, filt, ap_area,
                          header, bkg_rms, exptime, gain),
              flux)

unc_shared(base, flux, flux_err, survey, filt, ap_area, header, bkg_rms, exptime, gain, readnoise) ==
    unc_terms(base, flux, flux_err, survey, filt, ap_area, header, bkg_rms,
              exptime, gain, readnoise,
              shared_term(base, flux, survey, ap_area, readnoise, gain))

\* lines 533-543: the extractors, the base term and the Spitzer rescaling
unc_extracted(flux0, flux_err, survey, filt, ap_area, header, bkg_rms, exptime, gain, readnoise) ==
    unc_shared(NDiv(NMul(PyF(10857), flux_err, 1), flux0, 1),
               IF survey = "Spitzer"
               THEN NDiv(flux0, HNum(header, "EFCONV"), FS)
               ELSE flux0,
               flux_err, survey, filt, ap_area, header, bkg_rms,
               exptime, gain, readnoise)

uncertainty_trace(flux0, flux_err, survey, filt, ap_area, header, bkg_rms) ==
    unc_extracted(flux0, flux_err, survey, filt, ap_area, header, bkg_rms,
                  get_image_exptime(header, survey),
                  get_image_gain(header, survey),
                  get_image_readnoise(header, survey))

uncertainty_calculation(flux, flux_err, survey, filt, ap_area, header, bkg) ==
    uncertainty_trace(flux, flux_err, survey, filt, ap_area, header, bkg).ret

\* --------------------------------------------------------- integrate_filter
\* Arrays are sequences of integers: wavelengths in whole units, increasing;
\* flux densities in whole units; responses in units 1/MS.

\* numpy's default beyond the sample points: the first and the last sample
np_interp_edge(x, xp, fp) ==
    IF x < xp[1] THEN fp[1] ELSE fp[Len(fp)]

\* np.interp(x, xp, fp, left=0.0, right=0.0) at one point x
np_interp(x, xp, fp) ==
    IF x < xp[1] \/ x > xp[Len(xp)] THEN 0
    ELSE IF x = xp[Len(xp)] THEN fp[Len(fp)]
    ELSE LET j == CHOOSE i \in 1..(Len(xp) - 1) : xp[i] <= x /\ x < xp[i + 1]
         IN fp[j] + ((fp[j + 1] - fp[j]) * (x - xp[j])) \div (xp[j + 1] - xp[j])

\* 2 * np.trapz(y, x): the sum of (y[i] + y[i+1]) * (x[i+1] - x[i]) up to i < n
RECURSIVE np_trapz2(_, _, _)
np_trapz2(y, x, n) ==
    IF n <= 1 THEN 0
    ELSE np_trapz2(y, x, n - 1) + (y[n - 1] + y[n]) * (x[n] - x[n - 1])

\* lines 979-991: the flux density (1/FS), NaN or the exception
integrate_filter(spectrum_wave, spectrum_flux, filter_wave, filter_response, response_type) ==
    IF Len(filter_response) # Len(filter_wave) \/ Len(filter_wave) = 0
       \/ Len(spectrum_flux) # Len(spectrum_wave)
    THEN Raise("ValueError")
    ELSE LET response == IF response_type = "energy"
                         THEN [i \in 1..Len(filter_wave) |->
                                  filter_response[i] \div filter_wave[i]]
                         ELSE filter_response
             interp_response == [i \in 1..Len(spectrum_wave) |->
                                    np_interp(spectrum_wave[i], filter_wave,
                                              response)]
             int1 == np_trapz2([i \in 1..Len(spectrum_wave) |->
                                   spectrum_flux[i] * interp_response[i]
                                       * spectrum_wave[i]],
                               spectrum_wave, Len(spectrum_wave))
             int2 == np_trapz2([i \in 1..Len(filter_wave) |->
                                   response[i] * filter_wave[i]],
                               filter_wave, Len(filter_wave))
         IN NDiv(NpF(int1), NpF(int2), FS)

\* ------------------------------------------------------------ adapt_aperture
\* numpy arrays live in buffers: bufs is the sequence of the buffers and an
\* array variable holds the index of its buffer. An object is a record with
\* the fields x, y, a, b (pixels) and theta (degrees).

\* objects_ = objects: a second name for the caller's buffer
np_copy_alias(bufs, ref) == [bufs |-> bufs, ref |-> ref]

\* line 1019, objects.copy(): a new buffer with the same contents
np_copy(bufs, ref) == [bufs |-> Append(bufs, bufs[ref]), ref |-> Len(bufs) + 1]

\* lines 1021-1038 for one object: the aperture taken to the sky with img_wcs
\* and back to pixels with img_wcs2. The two WCS are reduced to wcs: the ratio
\* num/den of their pixel scales, the shift (dx, dy) of the origin and the
\* rotation rot between the images; then the flip of the orientation.
adapt_object(obj, wcs, flip) ==
    [x |-> (obj.x * wcs.num) \div wcs.den + wcs.dx,
     y |-> (obj.y * wcs.num) \div wcs.den + wcs.dy,
     a |-> (obj.a * wcs.num) \div wcs.den,
     b |-> (obj.b * wcs.num) \div wcs.den,
     theta |-> IF flip THEN -(obj.theta + wcs.rot) ELSE obj.theta + wcs.rot]

\* line 1041: the sum of objects['a'] / objects_['a'] over the first n objects
RECURSIVE ratio_sum(_, _, _)
ratio_sum(objects, objects_, n) ==
    IF n = 0 THEN NpF(0)
    ELSE NAdd(ratio_sum(objects, objects_, n - 1),
              NDiv(NpF(objects[n].a), NpF(objects_[n].a), FS))

\* lines 1019-1043: the buffers after the call, the returned array and the
\* conversion factor (1/FS; the mean of an empty array is NaN)
adapt_aperture(bufs, objects, wcs, flip) ==
    LET c == np_copy(bufs, objects)
        written == [c.bufs EXCEPT ![c.ref] =
                       [i \in 1..Len(@) |-> adapt_object(@[i], wcs, flip)]]
    IN [bufs |-> written,
        objects_ |-> c.ref,
        conv_factor |->
            IF Len(written[objects]) = 0 THEN Mk("nan", 0, TRUE)
            ELSE NDiv(ratio_sum(written[objects], written[c.ref],
                                Len(written[objects])),
                      NpF(Len(written[objects])), 1)]

\* ----------------------------------------------------- magnitude calculator
\* the u-band offset applied to every SDSS filter
sdss_offset_every(filt) == -400

\* the magnitude offset (1/MS) of the pre-correction, by survey and filter
sdss_offset(filt) == IF filt = f_u THEN -400 ELSE IF filt = f_z THEN 200 ELSE 0
unwise_offset(filt) ==
    IF filt = f_W1 THEN -40 ELSE IF filt = f_W2 THEN -320 ELSE 0

\* 10**(-0.4*offset) in units 1/MS
offset_factor(offset) == NPow10(NMul(PyF(-4000), PyF(offset), MS), MS)

\* lines 407-412: the zero point (1/MS) or the exception of the lookup
resolve_zp(survey, filt, header) ==
    LET zp_dict == survey_zp(survey)
    IN IF ~zp_dict.ok THEN RaiseOf(zp_dict)
       ELSE IF zp_dict.val.t = "str" THEN HNum(header, "MAGZP")
       ELSE DictNum(zp_dict.val.v, filt)

\* a pre-correction step that leaves the flux as the caller gave it
precorrect_skipped(flux, flux_err, survey, filt, ap_area, header, glob_ok) ==
    [flux |-> flux, flux_err |-> flux_err]

\* lines 414-442: flux and flux_err after the survey pre-correction
precorrect(flux, flux_err, survey, filt, ap_area, header, glob_ok) ==
    IF survey = "SDSS"
    THEN [flux |-> NMul(flux, offset_factor(sdss_offset(filt)), MS),
          flux_err |-> NMul(flux_err, offset_factor(sdss_offset(filt)), MS)]
    ELSE IF survey = "unWISE"
    THEN [flux |-> NMul(flux, offset_factor(unwise_offset(filt)), MS),
          flux_err |-> NMul(flux_err, offset_factor(unwise_offset(filt)), MS)]
    ELSE IF survey = "HST"
    THEN [flux |-> NMul(flux,
                        correct_HST_aperture(filt, ap_area, header, glob_ok),
                        MS),
          flux_err |-> flux_err]
    ELSE [flux |-> flux, flux_err |-> flux_err]

\* a division by the exposure time that also takes in DES
ExptimeSurveys_withDES == {"PS1", "VISTA", "UKIDSS", "DES"}

\* line 455: the surveys whose flux is divided by the exposure time
ExptimeSurveys == {"PS1", "VISTA", "UKIDSS"}

\* lines 462-463
final_mag(flux, zp) == NAdd(NMul(PyF(-25000), NLog10(flux), MS), zp)
final_mag_err(flux, flux_err) ==
    NAbs(NDiv(NMul(PyF(25), flux_err, 1), NMul(flux, NpF(23026), MS), 1000))

\* ------------------------------------------------------------------- inputs
\* a header without the key k
Drop(h, k) == [x \in (DOMAIN h) \ {k} |-> h[x]]

EmptyHeader == [x \in {} |-> 0]

\* a complete header of each survey (numbers in 1/FS, magnitudes in 1/MS)
FullHeader(survey) ==
    CASE survey = "PS1" ->
           ("HIERARCH CELL.GAIN" :> 105) @@ ("HIERARCH CELL.READNOISE" :> 550)
           @@ ("EXPTIME" :> 200)
      [] survey = "DES" -> ("GAIN" :> 400) @@ ("EXPTIME" :> 9000)
      [] survey = "SDSS" -> ("CAMCOL" :> 1) @@ ("RUN" :> 500)
      [] survey = "GALEX" -> ("EXPTIME" :> 200)
      [] survey = "2MASS" -> ("MAGZP" :> 200000)
      [] survey = "WISE" ->
           ("BAND" :> 1) @@ ("MAGZP" :> 205000) @@ ("MAGZPUNC" :> 60)
      [] survey = "Spitzer" ->
           ("INSTRUME" :> "IRAC") @@ ("EFCONV" :> 20) @@ ("CHNLNUM" :> 1)
           @@ ("EXPTIME" :> 3000) @@ ("MAGZP" :> 180000)
      [] survey = "VISTA" ->
           ("EXPTIME" :> 300) @@ ("MAGZP" :> 240000) @@ ("MAGZRR" :> 100)
      [] survey = "HST" ->
           ("CCDGAIN" :> 150) @@ ("PCTERNOI" :> 0) @@ ("EXPTIME" :> 50000)
           @@ ("MAGZP" :> 250000) @@ ("APERTURE" :> i_UVIS2)
      [] survey = "SkyMapper" ->
           ("GAIN" :> 80) @@ ("EXPTIME" :> 10000) @@ ("MAGZP" :> 260000)
           @@ ("ZPTERR" :> 200)
      [] survey = "SPLUS" ->
           ("GAIN" :> 100) @@ ("HIERARCH OAJ QC NCNOISE" :> 340)
           @@ ("TEXPOSED" :> 9900) @@ ("MAGZP" :> 230000)
      [] survey = "UKIDSS" ->
           ("GAIN" :> 450) @@ ("READNOIS" :> 2000) @@ ("EXP_TIME" :> 100)
           @@ ("NEXP" :> 2) @@ ("MAGZP" :> 225000) @@ ("MAGZRR" :> 150)
      [] OTHER -> EmptyHeader

\* other values of a header field that the code branches on
AltHeaders(survey) ==
    CASE survey = "SDSS" ->
           {("CAMCOL" :> 2) @@ ("RUN" :> 1101), ("CAMCOL" :> 4) @@ ("RUN" :> 1501),
            ("CAMCOL" :> 7) @@ ("RUN" :> 500)}
      [] survey = "WISE" ->
           {("BAND" :> 3) @@ FullHeader(survey), ("BAND" :> 5) @@ FullHeader(survey)}
      [] survey = "Spitzer" ->
           {("INSTRUME" :> "MIPS") @@ FullHeader(survey),
            ("INSTRUME" :> "IRS") @@ FullHeader(survey),
            ("CHNLNUM" :> 5) @@ FullHeader(survey)}
      [] OTHER -> {}

\* the headers a caller may pass for a survey: complete, with one field
\* missing, with another value of a field, or None
HeadersFor(survey) ==
    {FullHeader(survey)} \cup AltHeaders(survey) \cup {NoHeader}
    \cup {Drop(FullHeader(survey), k) : k \in DOMAIN FullHeader(survey)}

RegisteredSurveys == {config_df[i].survey : i \in 1..Len(config_df)}
Surveys == RegisteredSurveys \cup UnregisteredSurveys

\* a filter that no survey registers
f_bad == <<"q">>

\* the filters a caller may pass for a survey
FiltersFor(survey) ==
    {None, f_bad} \cup
    (CASE survey \in {"PS1", "LegacySurvey"} -> {f_g, f_z}
       [] survey = "DES" -> {f_g, f_Y}
       [] survey = "SDSS" -> {f_u, f_g, f_z}
       [] survey = "GALEX" -> {f_FUV, f_NUV}
       [] survey \in {"2MASS", "VISTA"} -> {f_J, f_Ks}
       [] survey \in {"WISE", "unWISE", "NEOWISE"} -> {f_W1, f_W2, f_W4}
       [] survey = "Spitzer" -> {f_I1, f_M24}
       [] survey = "HST" -> {f_HST_IR, f_HST_UVIS, f_HST_bad}
       [] survey = "SkyMapper" -> {f_u, f_g}
       [] survey = "SPLUS" -> {f_U, f_g}
       [] survey = "UKIDSS" -> {f_J, f_K}
       [] survey = "JWST" -> {f_F200W, <<"F">>}
       [] OTHER -> {f_g})

\* fluxes, flux errors, aperture areas and background noise (1/FS)
FluxVals == {-50000, 0, 100000}
FluxErrVals == {1000, 3160}
AreaVals == {0, 5000}
BkgVals == {0, 100}

\* the background noise values tried for a survey (only the 2MASS and WISE
\* formulas read bkg_rms)
BkgFor(survey) ==
    IF survey = "2MASS" \/ HasWISE(survey) THEN BkgVals ELSE {0}

\* whether glob.glob takes a Path: both outcomes, where the code calls it
GlobFor(survey) == IF survey = "HST" THEN BOOLEAN ELSE {TRUE}

\* how many times in a row a caller converts a magnitude back and recalibrates
MaxRecal == 1

\* SDSS frame headers around the runs at which the calibration changed
SdssFrames ==
    {("CAMCOL" :> c) @@ ("RUN" :> r) :
        c \in 1..6, r \in {1100, 1101, 1500, 1501}}

\* a number as the caller passes it: a numpy scalar or a Python float
Arg(v, npy) == IF npy THEN NpF(v) ELSE PyF(v)

\* ------------------------------------------------------------------- state
VARIABLES
    pc,        \* "idle", a position inside magnitude_calculation, or "done"
    call,      \* the function called and its arguments
    header,    \* the caller's header mapping
    flux,      \* magnitude_calculation's local flux
    flux_err,  \* magnitude_calculation's local flux_err
    zp,        \* magnitude_calculation's local zp
    unc_arg,   \* the flux and flux_err handed to uncertainty_calculation
    utrace,    \* the values uncertainty_calculation computed on the way
    result,    \* what the call returned or raised
    rt,        \* the first result of a round trip in progress
    header_in, \* the header mapping as the caller held it before the call
    mem        \* the arrays the caller holds, by name

vars == <<pc, call, header, flux, flux_err, zp, unc_arg, utrace, result, rt,
          header_in, mem>>

Zero == PyF(0)

Call(op, survey, filt, f, fe, area, bkg, npy, glob_ok) ==
    [op |-> op, survey |-> survey, filt |-> filt, flux |-> f,
     flux_err |-> fe, ap_area |-> area, bkg_rms |-> bkg, npy |-> npy,
     glob_ok |-> glob_ok]

NoCall == Call("none", "none", None, 0, 0, 0, 0, FALSE, TRUE)
NoUncArg == [called |-> FALSE, flux |-> Zero, flux_err |-> Zero]
NoTrace == UncOut(Zero, Zero, Zero, Zero)
NoResult == [ok |-> FALSE, err |-> "pending", val |-> <<>>]
NoRt == [n |-> 0, active |-> FALSE, mag |-> Zero, zp |-> Zero, flux |-> Zero]
NoMem == <<>>

\* a variant that stores a value it read back into the header
header_after_store(h) ==
    IF h = NoHeader THEN h ELSE ("GAIN" :> 100) @@ h

\* The header mapping as a call leaves it. The extractors, the error model and
\* the magnitude calculator only subscript the header; lines 182 and 543
\* (gain *= header["EFCONV"], flux /= header["EFCONV"]) rebind a local float.
header_after(h) == h

\* a number or exception as the result of a call
NumResult(x) == IF IsRaise(x) THEN Err(x.e) ELSE Ok(x)

Init ==
    /\ pc = "idle"
    /\ call = NoCall
    /\ header = NoHeader
    /\ flux = Zero
    /\ flux_err = Zero
    /\ zp = Zero
    /\ unc_arg = NoUncArg
    /\ utrace = NoTrace
    /\ result = NoResult
    /\ rt = NoRt
    /\ header_in = NoHeader
    /\ mem = NoMem

\* ---------------------------------------------------------------- registry
CallGetSurveyFilters ==
    /\ pc = "idle"
    /\ \E s \in Surveys :
        /\ call' = Call("get_survey_filters", s, None, 0, 0, 0, 0, FALSE, TRUE)
        /\ result' = get_survey_filters(s)
    /\ pc' = "done"
    /\ UNCHANGED <<header, header_in, mem, flux, flux_err, zp, unc_arg, utrace, rt>>

CallSurveyZp ==
    /\ pc = "idle"
    /\ \E s \in Surveys :
        /\ call' = Call("survey_zp", s, None, 0, 0, 0, 0, FALSE, TRUE)
        /\ result' = survey_zp(s)
    /\ pc' = "done"
    /\ UNCHANGED <<header, header_in, mem, flux, flux_err, zp, unc_arg, utrace, rt>>

CallSurveyPixelScale ==
    /\ pc = "idle"
    /\ \E s \in Surveys : \E f \in FiltersFor(s) :
        /\ call' = Call("survey_pixel_scale", s, f, 0, 0, 0, 0, FALSE, TRUE)
        /\ result' = survey_pixel_scale(s, f)
    /\ pc' = "done"
    /\ UNCHANGED <<header, header_in, mem, flux, flux_err, zp, unc_arg, utrace, rt>>

\* --------------------------------------------------------------- extractors
CallGetImageGain ==
    /\ pc = "idle"
    /\ \E s \in Surveys : \E h \in HeadersFor(s) :
        /\ call' = Call("get_image_gain", s, None, 0, 0, 0, 0, FALSE, TRUE)
        /\ header_in' = h
        /\ header' = header_after(h)
        /\ result' = NumResult(get_image_gain(h, s))
    /\ pc' = "done"
    /\ UNCHANGED <<mem, flux, flux_err, zp, unc_arg, utrace, rt>>

CallGetImageReadnoise ==
    /\ pc = "idle"
    /\ \E s \in Surveys : \E h \in HeadersFor(s) :
        /\ call' = Call("get_image_readnoise", s, None, 0, 0, 0, 0, FALSE, TRUE)
        /\ header_in' = h
        /\ header' = header_after(h)
        /\ result' = NumResult(get_image_readnoise(h, s))
    /\ pc' = "done"
    /\ UNCHANGED <<mem, flux, flux_err, zp, unc_arg, utrace, rt>>

CallGetImageExptime ==
    /\ pc = "idle"
    /\ \E s \in Surveys : \E h \in HeadersFor(s) :
        /\ call' = Call("get_image_exptime", s, None, 0, 0, 0, 0, FALSE, TRUE)
        /\ header_in' = h
        /\ header' = header_after(h)
        /\ result' = NumResult(get_image_exptime(h, s))
    /\ pc' = "done"
    /\ UNCHANGED <<mem, flux, flux_err, zp, unc_arg, utrace, rt>>

\* -------------------------------------------------------- uncertainty model
CallUncertainty ==
    /\ pc = "idle"
    /\ \E s \in Surveys :
       \E f \in FiltersFor(s) \cup (IF s = "SDSS" THEN {f_r, f_i} ELSE {}) :
       \E h \in HeadersFor(s) \cup (IF s = "SDSS" THEN SdssFrames ELSE {}) :
       \E fl \in FluxVals : \E fe \in FluxErrVals : \E a \in AreaVals :
       \E b \in BkgFor(s) : \E npy \in BOOLEAN :
        LET t == uncertainty_trace(Arg(fl, npy), Arg(fe, npy), s, f,
                                   Arg(a, npy), h, Arg(b, npy))
        IN /\ call' = Call("uncertainty_calculation", s, f, fl, fe, a, b, npy,
                           TRUE)
           /\ header_in' = h
           /\ header' = header_after(h)
           /\ unc_arg' = [called |-> TRUE, flux |-> Arg(fl, npy),
                          flux_err |-> Arg(fe, npy)]
           /\ utrace' = t
           /\ result' = NumResult(t.ret)
    /\ pc' = "done"
    /\ UNCHANGED <<mem, flux, flux_err, zp, rt>>

\* ---------------------------------------------------------- integrate_filter
\* the spectra (wavelengths, flux densities) and the filter curves (wavelengths,
\* responses in 1/MS) a caller passes, some with arrays of unequal length
CallIntegrateFilter ==
    /\ pc = "idle"
    /\ \E sw \in {<<1, 2, 3>>, <<4, 6, 8>>, <<10, 11, 12>>, <<2, 5>>} :
       \E sf \in {<<1, 1, 1>>, <<1, 3, 5>>, <<2, 2>>} :
       \E fw \in {<<4, 5, 6, 7>>, <<5, 7>>, <<6, 7, 8, 9>>} :
       \E fr \in {<<0, 10000, 10000, 0>>, <<2000, 8000, 10000, 5000>>,
                  <<0, 0, 0, 0>>, <<10000, 10000>>} :
       \E rt_ \in {"photon", "energy"} :
        /\ call' = Call("integrate_filter", "none", None, 0, 0, 0, 0, TRUE,
                         TRUE)
        /\ mem' = [spectrum_wave |-> sw, spectrum_flux |-> sf,
                   filter_wave |-> fw, filter_response |-> fr,
                   response_type |-> rt_]
        /\ result' = NumResult(integrate_filter(sw, sf, fw, fr, rt_))
    /\ pc' = "done"
    /\ UNCHANGED <<header, header_in, flux, flux_err, zp, unc_arg, utrace, rt>>

\* ------------------------------------------------------------ adapt_aperture
\* the caller's objects array (none, one or two objects) is buffer 1
CallAdaptAperture ==
    /\ pc = "idle"
    /\ \E o1 \in [x : {10, 25}, y : {7}, a : {4, 6}, b : {2},
                   theta : {-30, 0, 45}] :
       \E o2 \in [x : {12}, y : {30}, a : {5, 8}, b : {3}, theta : {0, 90}] :
       \E objs \in {<<>>, <<o1>>, <<o1, o2>>} :
       \E wcs \in {[num |-> 1, den |-> 1, dx |-> 0, dy |-> 0, rot |-> 0],
                   [num |-> 2, den |-> 1, dx |-> 5, dy |-> -3, rot |-> 0],
                   [num |-> 1, den |-> 2, dx |-> 0, dy |-> 0, rot |-> 90]} :
       \E flip \in BOOLEAN :
        LET out == adapt_aperture(<<objs>>, 1, wcs, flip)
        IN /\ call' = Call("adapt_aperture", "none", None, 0, 0, 0, 0, TRUE,
                            TRUE)
           /\ mem' = [bufs |-> out.bufs, objects |-> 1, before |-> objs,
                      img_wcs |-> wcs, flip |-> flip]
           /\ result' = Ok([objects_ |-> out.objects_,
                            conv_factor |-> out.conv_factor])
    /\ pc' = "done"
    /\ UNCHANGED <<header, header_in, flux, flux_err, zp, unc_arg, utrace, rt>>

\* ----------------------------------------------------- magnitude_calculation
\* the call ends with the exception e
Fail(e) ==
    /\ pc' = "done"
    /\ result' = Err(e)

\* the call: the arguments become the locals
MagCall ==
    /\ pc = "idle"
    /\ \E s \in Surveys : \E f \in FiltersFor(s) : \E h \in HeadersFor(s) :
       \E fl \in FluxVals : \E fe \in FluxErrVals : \E a \in AreaVals :
       \E b \in BkgFor(s) : \E npy \in BOOLEAN : \E g \in GlobFor(s) :
        /\ call' = Call("magnitude_calculation", s, f, fl, fe, a, b, npy, g)
        /\ header_in' = h
        /\ header' = h
        /\ flux' = Arg(fl, npy)
        /\ flux_err' = Arg(fe, npy)
    /\ pc' = "mag_zp"
    /\ UNCHANGED <<mem, zp, unc_arg, utrace, result, rt>>

\* lines 407-412: get zeropoint
MagZp ==
    /\ pc = "mag_zp"
    /\ LET z == resolve_zp(call.survey, call.filt, header)
       IN IF IsRaise(z)
          THEN Fail(z.e) /\ UNCHANGED zp
          ELSE pc' = "mag_pre" /\ zp' = z /\ UNCHANGED result
    /\ UNCHANGED <<call, header, header_in, mem, flux, flux_err, unc_arg,
                   utrace, rt>>

\* lines 414-442: the survey pre-correction
MagPre ==
    /\ pc = "mag_pre"
    /\ LET c == precorrect(flux, flux_err, call.survey, call.filt,
                           Arg(call.ap_area, call.npy), header, call.glob_ok)
       IN IF IsRaise(c.flux)
          THEN Fail(c.flux.e) /\ UNCHANGED <<flux, flux_err>>
          ELSE /\ pc' = "mag_unc"
               /\ flux' = c.flux
               /\ flux_err' = c.flux_err
               /\ UNCHANGED result
    /\ UNCHANGED <<call, header, header_in, mem, zp, unc_arg, utrace, rt>>

\* lines 444-453: error propagation
MagUnc ==
    /\ pc = "mag_unc"
    /\ LET t == uncertainty_trace(flux, flux_err, call.survey, call.filt,
                                  Arg(call.ap_area, call.npy), header,
                                  Arg(call.bkg_rms, call.npy))
       IN /\ unc_arg' = [called |-> TRUE, flux |-> flux, flux_err |-> flux_err]
          /\ utrace' = t
          /\ IF IsRaise(t.ret)
             THEN Fail(t.ret.e) /\ UNCHANGED flux_err
             ELSE pc' = "mag_exp" /\ flux_err' = t.ret /\ UNCHANGED result
    /\ header' = header_after(header)
    /\ UNCHANGED <<call, header_in, mem, flux, zp, rt>>

\* lines 455-460: counts to counts per second
MagExp ==
    /\ pc = "mag_exp"
    /\ IF call.survey \in ExptimeSurveys
       THEN LET exptime == get_image_exptime(header, call.survey)
                fl == NDiv(flux, exptime, FS)
                fe == NDiv(flux_err, exptime, FS)
            IN IF IsRaise(Then(fl, fe))
               THEN Fail(Then(fl, fe).e) /\ UNCHANGED <<flux, flux_err>>
               ELSE /\ pc' = "mag_fin"
                    /\ flux' = fl
                    /\ flux_err' = fe
                    /\ UNCHANGED result
       ELSE pc' = "mag_fin" /\ UNCHANGED <<flux, flux_err, result>>
    /\ UNCHANGED <<call, header, header_in, mem, zp, unc_arg, utrace, rt>>

\* lines 462-465: the magnitude, its error and the return
MagFin ==
    /\ pc = "mag_fin"
    /\ LET mag == final_mag(flux, zp)
           mag_err == final_mag_err(flux, flux_err)
       IN IF IsRaise(Then(mag, mag_err))
          THEN Fail(Then(mag, mag_err).e)
          ELSE /\ pc' = "done"
               /\ result' = Ok([mag |-> mag, mag_err |-> mag_err,
                                flux |-> flux, flux_err |-> flux_err,
                                zp |-> zp])
    /\ UNCHANGED <<call, header, header_in, mem, flux, flux_err, zp, unc_arg,
                   utrace, rt>>

\* The caller converts the magnitude back, flux' = 10**(-0.4*(mag - zp)),
\* and calls magnitude_calculation again with the other arguments unchanged.
Recalibrate ==
    /\ pc = "done"
    /\ call.op = "magnitude_calculation"
    /\ rt.n < MaxRecal
    /\ result.ok
    /\ IsFin(result.val.mag)
    /\ LET back == NPow10(NMul(PyF(-4000),
                               NSub(result.val.mag, result.val.zp), MS), FS)
       IN /\ rt' = [n |-> rt.n + 1, active |-> TRUE, mag |-> result.val.mag,
                    zp |-> result.val.zp, flux |-> back]
          /\ flux' = back
    /\ flux_err' = Arg(call.flux_err, call.npy)
    /\ pc' = "mag_zp"
    /\ result' = NoResult
    /\ unc_arg' = NoUncArg
    /\ utrace' = NoTrace
    /\ zp' = Zero
    /\ UNCHANGED <<call, header, header_in, mem>>

\* the caller takes the result; the next call starts afresh
Return ==
    /\ pc = "done"
    /\ pc' = "idle"
    /\ call' = NoCall
    /\ header' = NoHeader
    /\ flux' = Zero
    /\ flux_err' = Zero
    /\ zp' = Zero
    /\ unc_arg' = NoUncArg
    /\ utrace' = NoTrace
    /\ result' = NoResult
    /\ rt' = NoRt
    /\ header_in' = NoHeader
    /\ mem' = NoMem

Next ==
    \/ CallGetSurveyFilters
    \/ CallSurveyZp
    \/ CallSurveyPixelScale
    \/ CallGetImageGain
    \/ CallGetImageReadnoise
    \/ CallGetImageExptime
    \/ CallUncertainty
    \/ CallIntegrateFilter
    \/ CallAdaptAperture
    \/ MagCall
    \/ MagZp
    \/ MagPre
    \/ MagUnc
    \/ MagExp
    \/ MagFin
    \/ Recalibrate
    \/ Return

Spec == Init /\ [][Next]_vars

\* =================================================================== claims
\* The filter names each survey of the configuration registers, and the zero
\* point configured for each of them (1/MS), as the file's author wrote them.
FilterNames(survey) ==
    CASE survey = "PS1" -> <<f_g, f_r, f_i, f_z, f_y>>
      [] survey = "DES" -> <<f_g, f_r, f_i, f_z, f_Y>>
      [] survey = "SDSS" -> <<f_u, f_g, f_r, f_i, f_z>>
      [] survey = "GALEX" -> <<f_FUV, f_NUV>>
      [] survey = "2MASS" -> <<f_J, f_H, f_Ks>>
      [] survey \in {"WISE", "unWISE"} -> <<f_W1, f_W2, f_W3, f_W4>>
      [] survey = "LegacySurvey" -> <<f_g, f_r, f_i, f_z>>
      [] survey = "Spitzer" -> <<f_I1, f_I2, f_M24>>
      [] survey = "VISTA" -> <<f_Z, f_Y, f_J, f_H, f_Ks>>
      [] survey = "HST" -> <<f_HST_IR, f_HST_UVIS>>
      [] survey = "SkyMapper" -> <<f_u, f_v, f_g, f_r, f_i, f_z>>
      [] survey = "SPLUS" -> <<f_U, f_F378, f_F395, f_g, f_r>>
      [] survey = "UKIDSS" -> <<f_Z, f_Y, f_J, f_H, f_K>>
      [] survey = "JWST" -> <<f_F200W>>
      [] survey = "NEOWISE" -> <<f_W1, f_W2>>
      [] OTHER -> <<>>

ConfiguredZp(survey, filt) ==
    CASE survey = "PS1" -> 250000
      [] survey = "DES" -> 300000
      [] survey \in {"SDSS", "unWISE", "LegacySurvey", "NEOWISE"} -> 225000
      [] survey = "GALEX" -> IF filt = f_FUV THEN 188200 ELSE 200800
      [] survey = "JWST" -> 280000
      [] OTHER -> 0

\* the surveys whose zero point is a number of the configuration
FixedZpSurveys ==
    {"PS1", "DES", "SDSS", "GALEX", "unWISE", "LegacySurvey", "JWST", "NEOWISE"}

\* the surveys uncertainty_calculation has an error formula for
SupportedSurveys ==
    {"PS1", "DES", "SDSS", "GALEX", "2MASS", "WISE", "unWISE", "LegacySurvey",
     "Spitzer", "VISTA", "HST", "SkyMapper", "SPLUS", "UKIDSS"}

RegistryOps == {"get_survey_filters", "survey_zp", "survey_pixel_scale"}

\* C1: get_survey_filters, survey_zp and survey_pixel_scale, called with a
\* survey name that the configuration does not register, each end in the
\* unknown-survey error (the failed assertion) and return no value.
C1_UnregisteredSurveyFails ==
    (pc = "done" /\ call.op \in RegistryOps
        /\ call.survey \notin {"PS1", "DES", "SDSS", "GALEX", "2MASS", "WISE",
                               "unWISE", "LegacySurvey", "Spitzer", "VISTA",
                               "HST", "SkyMapper", "SPLUS", "UKIDSS", "JWST",
                               "NEOWISE"})
    => (~result.ok /\ result.err = "AssertionError")

\* C1 witness: survey_pixel_scale was called with the unregistered "LSST"
\* and ended in the failed assertion
C1_Witness ==
    /\ pc = "done"
    /\ call.op = "survey_pixel_scale"
    /\ call.survey = "LSST"
    /\ ~result.ok
    /\ result.err = "AssertionError"

\* the mapping d has exactly the filter names of the survey as keys, each with
\* its configured zero point
ZpDictMatches(d, survey) ==
    /\ DictKeys(d) = Range(FilterNames(survey))
    /\ \A i \in 1..Len(FilterNames(survey)) :
          DictGet(d, FilterNames(survey)[i])
              = ConfiguredZp(survey, FilterNames(survey)[i])

\* C2 (as claimed): for every registered survey whose zero point is not
\* "header", survey_zp returns a mapping whose keys are exactly the survey's
\* registered filter names, each with the configured zero point; also for a
\* survey registered with a single multi-character filter name.
C2_ZpKeysAreFilterNames ==
    (pc = "done" /\ call.op = "survey_zp" /\ call.survey \in FixedZpSurveys)
    => (/\ result.ok
        /\ result.val.t = "dict"
        /\ ZpDictMatches(result.val.v, call.survey))

\* C2, the part that holds: the claim restricted to the surveys that register
\* more than one filter
C2_ZpKeysSeveralFilters ==
    (pc = "done" /\ call.op = "survey_zp" /\ call.survey \in FixedZpSurveys
        /\ Len(FilterNames(call.survey)) > 1)
    => (/\ result.ok
        /\ result.val.t = "dict"
        /\ ZpDictMatches(result.val.v, call.survey))

\* the flux magnitude_calculation starts from: the caller's flux, or the flux
\* converted back from the first magnitude in a round trip
InputFlux == IF rt.active THEN rt.flux ELSE Arg(call.flux, call.npy)

\* the flux after the pre-correction the survey and filter call for
CorrectedFlux ==
    CASE call.survey = "SDSS" /\ call.filt = f_u ->
           NMul(InputFlux, NPow10(PyF(160), MS), MS)
      [] call.survey = "SDSS" /\ call.filt = f_z ->
           NMul(InputFlux, NPow10(PyF(-80), MS), MS)
      [] call.survey = "unWISE" /\ call.filt = f_W1 ->
           NMul(InputFlux, NPow10(PyF(16), MS), MS)
      [] call.survey = "unWISE" /\ call.filt = f_W2 ->
           NMul(InputFlux, NPow10(PyF(128), MS), MS)
      [] call.survey = "HST" ->
           NMul(InputFlux,
                correct_HST_aperture(call.filt, Arg(call.ap_area, call.npy),
                                     header, call.glob_ok), MS)
      [] OTHER -> InputFlux

\* C3: the flux magnitude_calculation hands to uncertainty_calculation is the
\* input flux already pre-corrected: times 10^(-0.4*offset) for SDSS u
\* (-0.04) and z (+0.02) and unWISE W1 (-0.004) and W2 (-0.032), times the
\* aperture-correction factor for HST, and the unchanged input flux for every
\* other survey and filter.
C3_PreCorrectionBeforeUncertainty ==
    (call.op = "magnitude_calculation" /\ unc_arg.called)
    => (unc_arg.flux.k = CorrectedFlux.k /\ unc_arg.flux.v = CorrectedFlux.v)

\* C3 witness: uncertainty_calculation was called for an SDSS u-band flux
\* that the offset has changed
C3_Witness ==
    /\ call.op = "magnitude_calculation"
    /\ call.survey = "SDSS"
    /\ call.filt = f_u
    /\ unc_arg.called
    /\ call.flux = 100000
    /\ unc_arg.flux.v > 100000
\* the exposure time (1/FS) the header of a PS1, VISTA or UKIDSS image gives
HeaderExptime ==
    IF call.survey = "UKIDSS" THEN header["EXP_TIME"] * header["NEXP"]
    ELSE header["EXPTIME"]

\* C4: magnitude_calculation divides flux and flux_err by the exposure time
\* for exactly PS1, VISTA and UKIDSS, and only after uncertainty_calculation
\* has returned: the uncertainty model is handed the undivided flux, the
\* returned flux and flux_err are its flux and its result divided by the
\* exposure time for these three surveys and undivided for every other one.
C4_ExptimeDivisionAfterUncertainty ==
    (call.op = "magnitude_calculation" /\ unc_arg.called)
    => /\ call.survey \in {"PS1", "VISTA", "UKIDSS"}
            => (unc_arg.flux.k = InputFlux.k /\ unc_arg.flux.v = InputFlux.v)
       /\ (pc = "done" /\ result.ok)
            => IF call.survey \in {"PS1", "VISTA", "UKIDSS"}
               THEN /\ result.val.flux
                         = NDiv(unc_arg.flux, PyF(HeaderExptime), FS)
                    /\ result.val.flux_err
                         = NDiv(utrace.ret, PyF(HeaderExptime), FS)
               ELSE /\ result.val.flux = unc_arg.flux
                    /\ result.val.flux_err = utrace.ret

\* C4 witness: a UKIDSS magnitude was returned whose flux is the flux of the
\* uncertainty model divided by the 2 s of exposure
C4_Witness ==
    /\ call.op = "magnitude_calculation"
    /\ call.survey = "UKIDSS"
    /\ pc = "done"
    /\ result.ok
    /\ unc_arg.called
    /\ unc_arg.flux.v = 100000
    /\ result.val.flux.v = 50000

\* C5: uncertainty_calculation called for a survey outside the fourteen
\* supported ones always ends in an error, whatever the other arguments are
\* (called directly or from magnitude_calculation); it never returns a value.
C5_UnsupportedSurveyFails ==
    (unc_arg.called /\ call.survey \notin SupportedSurveys)
    => (IsRaise(utrace.ret) /\ (pc = "done" => ~result.ok))

\* C5 witness: uncertainty_calculation was called for JWST, a survey of the
\* configuration without an error formula, and raised the exception of its
\* last branch
C5_Witness ==
    /\ call.op = "uncertainty_calculation"
    /\ call.survey = "JWST"
    /\ unc_arg.called
    /\ pc = "done"
    /\ ~result.ok
    /\ result.err = "Exception"

\* |flux * 0.4 * ln(10) * mag_err| (1/FS)
FluxUnits(f, mag_err) ==
    NAbs(NMul(NMul(NMul(f, PyF(4000), MS), NpF(23026), MS), mag_err, MS))

\* C6 (as claimed): the value uncertainty_calculation returns is
\* |flux * 0.4 * ln(10) * mag_err| with the flux that was passed to it and the
\* combined magnitude error it computed; the flux is never rescaled on the way.
C6_ReturnUsesPassedFlux ==
    (unc_arg.called /\ ~IsRaise(utrace.ret))
    => utrace.ret = FluxUnits(unc_arg.flux, utrace.mag_err)

\* C6, the part that holds: the claim for every survey but Spitzer
C6_ReturnUsesPassedFluxNotSpitzer ==
    (unc_arg.called /\ ~IsRaise(utrace.ret) /\ call.survey # "Spitzer")
    => utrace.ret = FluxUnits(unc_arg.flux, utrace.mag_err)
\* the survey is one of the fourteen supported ones and the filter one of its
\* filters
SupportedFilter ==
    /\ call.survey \in SupportedSurveys
    /\ \E i \in 1..Len(FilterNames(call.survey)) :
          FilterNames(call.survey)[i] = call.filt

\* the magnitudes of the two calibrations of a round trip differ by at most
\* tol (1/MS)
MagsAgree(tol) ==
    /\ result.ok
    /\ IsFin(result.val.mag)
    /\ AbsI(result.val.mag.v - rt.mag.v) <= tol

\* the second calibration of a round trip has returned or raised
RoundTripDone ==
    call.op = "magnitude_calculation" /\ rt.active /\ pc = "done"

\* C7 (as claimed): for every supported survey and filter and a positive
\* flux, converting the returned magnitude back with the same zero point,
\* flux' = 10^(-0.4*(mag - zp)), and calibrating flux' again with the other
\* arguments unchanged returns the same magnitude (to a thousandth).
C7_RoundTripAllSurveys ==
    (RoundTripDone /\ SupportedFilter) => MagsAgree(10)

\* second magnitude minus first magnitude of a round trip (1/MS)
MagShift == result.val.mag.v - rt.mag.v

\* the magnitude offset (1/MS) of the pre-correction of SDSS and unWISE
FilterOffset ==
    CASE call.survey = "SDSS" /\ call.filt = f_u -> -400
      [] call.survey = "SDSS" /\ call.filt = f_z -> 200
      [] call.survey = "unWISE" /\ call.filt = f_W1 -> -40
      [] call.survey = "unWISE" /\ call.filt = f_W2 -> -320
      [] OTHER -> 0

\* C7 (corrected): the round trip returns the same magnitude (to a
\* thousandth) only where the calibration leaves the flux as it is. With the
\* offsets of SDSS u, z and unWISE W1, W2 the second magnitude is the first
\* plus the offset, for PS1, VISTA and UKIDSS it is the first plus
\* 2.5*log10(exptime), and for HST it is fainter by the aperture correction.
C7_RoundTripUnchangedFlux ==
    (RoundTripDone /\ SupportedFilter)
    => /\ result.ok
       /\ IsFin(result.val.mag)
       /\ IF call.survey \in {"PS1", "VISTA", "UKIDSS"}
          THEN AbsI(MagShift
                    - NMul(PyF(25000), NLog10(PyF(HeaderExptime)), MS).v) <= 10
          ELSE IF call.survey = "HST"
          THEN MagShift > 30
          ELSE AbsI(MagShift - FilterOffset) <= 10

\* C7 witness: the second calibration of an SDSS g-band round trip returned
\* the magnitude of the first
C7_Witness ==
    /\ RoundTripDone
    /\ call.survey = "SDSS"
    /\ call.filt = f_g
    /\ MagsAgree(10)
\* a first call of magnitude_calculation with arguments that are valid but
\* for the flux: a supported survey, one of its filters, its complete header
\* and a positive aperture area
ValidMagnitudeCall ==
    /\ call.op = "magnitude_calculation"
    /\ ~rt.active
    /\ SupportedFilter
    /\ header = FullHeader(call.survey)
    /\ call.ap_area > 0
    /\ call.glob_ok

\* C8 (as claimed): magnitude_calculation never rejects a flux that is zero
\* or negative: with otherwise valid arguments the call completes without an
\* error and the magnitude it returns is not finite.
C8_NonPositiveFluxReturns ==
    (ValidMagnitudeCall /\ pc = "done" /\ call.flux <= 0)
    => (result.ok /\ IsNonFinite(result.val.mag))

\* C8, the part that holds: the claim for a flux that is negative or a numpy
\* scalar
C8_NegativeOrNumpyFluxReturns ==
    (ValidMagnitudeCall /\ pc = "done" /\ call.flux <= 0
        /\ (call.flux < 0 \/ call.npy))
    => (result.ok /\ IsNonFinite(result.val.mag))
ExtractorOps == {"get_image_gain", "get_image_readnoise", "get_image_exptime"}

\* the header has the field k
Has(k) == header # NoHeader /\ k \in DOMAIN header

\* the header field an extractor returns as it is, by survey ("" when the
\* extractor of the survey does not return a single field)
FieldReturned ==
    CASE call.op = "get_image_gain" /\ call.survey = "PS1" ->
           "HIERARCH CELL.GAIN"
      [] call.op = "get_image_gain"
            /\ call.survey \in {"DES", "SkyMapper", "SPLUS", "UKIDSS"} -> "GAIN"
      [] call.op = "get_image_gain" /\ call.survey = "HST" -> "CCDGAIN"
      [] call.op = "get_image_readnoise" /\ call.survey = "PS1" ->
           "HIERARCH CELL.READNOISE"
      [] call.op = "get_image_readnoise" /\ call.survey = "HST" -> "PCTERNOI"
      [] call.op = "get_image_readnoise" /\ call.survey = "SPLUS" ->
           "HIERARCH OAJ QC NCNOISE"
      [] call.op = "get_image_readnoise" /\ call.survey = "UKIDSS" ->
           "READNOIS"
      [] call.op = "get_image_exptime"
            /\ call.survey \in {"PS1", "DES", "GALEX", "VISTA", "Spitzer",
                                "HST", "SkyMapper"} -> "EXPTIME"
      [] call.op = "get_image_exptime" /\ call.survey = "SPLUS" -> "TEXPOSED"
      [] OTHER -> ""

\* the header lacks what the extractor of the survey needs: the field it
\* returns, a factor of the UKIDSS exposure time, the Spitzer instrument
\* (IRAC or MIPS) with the IRAC conversion factor or channel, or the WISE
\* band (1 to 4)
LacksNeededField ==
    \/ FieldReturned # "" /\ ~Has(FieldReturned)
    \/ /\ call.op = "get_image_exptime"
       /\ call.survey = "UKIDSS"
       /\ ~(Has("EXP_TIME") /\ Has("NEXP"))
    \/ /\ call.op = "get_image_exptime"
       /\ call.survey = "WISE"
       /\ ~(Has("BAND") /\ header["BAND"] \in 1..4)
    \/ /\ call.op \in {"get_image_gain", "get_image_readnoise"}
       /\ call.survey = "Spitzer"
       /\ \/ ~Has("INSTRUME")
          \/ header["INSTRUME"] \notin {"IRAC", "MIPS"}
          \/ /\ header["INSTRUME"] = "IRAC"
             /\ IF call.op = "get_image_gain" THEN ~Has("EFCONV")
                ELSE ~(Has("CHNLNUM") /\ header["CHNLNUM"] \in 1..4)

\* C9: get_image_gain, get_image_readnoise and get_image_exptime, for a
\* survey whose quantity is read from the header, end in an error when the
\* header lacks the needed field (the Spitzer instrument neither IRAC nor
\* MIPS and a WISE band outside 1-4 included); they never return a default
\* in its place, and what they return for a field that is there is the
\* value of the field.
C9_MissingFieldFails ==
    (pc = "done" /\ call.op \in ExtractorOps
        /\ call.survey \in SupportedSurveys)
    => /\ LacksNeededField => ~result.ok
       /\ (result.ok /\ FieldReturned # "")
             => result.val.v = header[FieldReturned]

\* C9 witness: get_image_exptime was called for WISE with a header whose
\* BAND is 5 and ended in an error
C9_Witness ==
    /\ pc = "done"
    /\ call.op = "get_image_exptime"
    /\ call.survey = "WISE"
    /\ Has("BAND")
    /\ header["BAND"] = 5
    /\ ~result.ok

\* C10 (as claimed): for every supported survey, magnitude_calculation and
\* uncertainty_calculation called with a filter that is not one of the
\* survey's registered filters (None included) end in an error; they never
\* return a value computed with a fallback for the unknown filter.
C10_UnregisteredFilterFails ==
    (pc = "done"
        /\ call.op \in {"magnitude_calculation", "uncertainty_calculation"}
        /\ ~rt.active
        /\ call.survey \in SupportedSurveys
        /\ ~SupportedFilter)
    => ~result.ok

\* C10, the part that holds: magnitude_calculation for the surveys whose
\* zero point is a per-filter number of the configuration
C10_UnregisteredFilterFailsFixedZp ==
    (pc = "done"
        /\ call.op = "magnitude_calculation"
        /\ ~rt.active
        /\ call.survey \in SupportedSurveys \cap FixedZpSurveys
        /\ ~SupportedFilter)
    => (~result.ok /\ result.err = "KeyError")


\* ------------------------------------------------------------ pixel scales
\* the surveys registered with several pixel scales, and the first of them
MultiScaleSurveys == {"Spitzer", "HST"}
FirstScale(survey) == IF survey = "HST" THEN Float(<<"0.04">>)
                      ELSE Float(<<"0.6">>)

\* the keys of the scale mapping: the registered filters, and for HST the
\* items of the filter argument that zip pairs with the two scales
ScaleKeys(survey, filt) ==
    IF survey = "HST"
    THEN IF filt = None THEN {}
         ELSE {<<filt[i]>> : i \in 1..Min2(2, Len(filt))}
    ELSE Range(FilterNames(survey))

\* survey_pixel_scale has ended for a multi-scale survey and a filter that is
\* not a key of the scale mapping
ScaleFallbackCall ==
    /\ pc = "done"
    /\ call.op = "survey_pixel_scale"
    /\ call.survey \in MultiScaleSurveys
    /\ call.filt \notin ScaleKeys(call.survey, call.filt)

\* the two messages the fallback prints, the second naming the filter used
WarnedFirstScale ==
    /\ result.ok
    /\ result.val.scale = FirstScale(call.survey)
    /\ Len(result.val.printed) = 2
    /\ result.val.printed[1] = <<"No pixel scale found for filter", call.filt>>
    /\ result.val.printed[2]
          = <<"Using the pixel scale of filter", FilterNames(call.survey)[1]>>

\* C11 (as claimed): survey_pixel_scale for a survey with several pixel
\* scales, called with no filter or with a filter that is not a key of the
\* scale mapping, either fails or returns the first registered scale after
\* printing the warning that names the filter used; for HST as for the others,
\* no scale is returned without the warning.
C11_FailsOrWarnsFirstScale ==
    ScaleFallbackCall => (~result.ok \/ WarnedFirstScale)

\* C11 (amended): the other multi-scale surveys return the first scale after
\* the warning; HST returns, with no message, the first scale for a filter
\* naming UVIS and the second for a filter naming IR, fails with ValueError
\* for any other filter and with TypeError when no filter is given.
C11_WarnsExceptHST ==
    ScaleFallbackCall =>
        IF call.survey # "HST" THEN WarnedFirstScale
        ELSE IF call.filt = None
        THEN ~result.ok /\ result.err = "TypeError"
        ELSE IF call.filt = f_HST_UVIS
        THEN result = Ok(PsOut(Float(<<"0.04">>), <<>>))
        ELSE IF call.filt = f_HST_IR
        THEN result = Ok(PsOut(Float(<<"0.13">>), <<>>))
        ELSE ~result.ok /\ result.err = "ValueError"

\* C11 witness: the fallback of a non-HST survey printed its warning
C11_Witness ==
    /\ ScaleFallbackCall
    /\ call.survey = "Spitzer"
    /\ call.filt = f_bad
    /\ WarnedFirstScale

\* ----------------------------------------------- monotonicity in flux_err
\* uncertainty_calculation has returned a number (not NaN) for a supported
\* survey and flux > 0
UncReturned ==
    /\ pc = "done"
    /\ call.op = "uncertainty_calculation"
    /\ call.survey \in SupportedSurveys
    /\ call.flux > 0
    /\ result.ok
    /\ IsFin(result.val)

\* the same call with the flux error e (1/FS), all other arguments fixed
UncAt(e) ==
    uncertainty_calculation(unc_arg.flux, Arg(e, call.npy), call.survey,
                            call.filt, Arg(call.ap_area, call.npy), header,
                            Arg(call.bkg_rms, call.npy))

\* the flux errors the returned call is compared with (1/FS)
ErrProbe == {-3160, -500, 0, 500, 1000, 2000, 3160}

\* a <= b for two returned numbers
NumLeq(a, b) == IsFin(a) /\ IsFin(b) /\ a.v <= b.v

\* the call with flux error e is ordered with the returned call as e is
\* ordered with the flux error passed
OrderedWith(e) ==
    /\ (e >= call.flux_err => NumLeq(result.val, UncAt(e)))
    /\ (e <= call.flux_err => NumLeq(UncAt(e), result.val))

\* C12 (as claimed): for every supported survey, with flux > 0 and all other
\* arguments fixed, the flux uncertainty uncertainty_calculation returns is
\* monotonically non-decreasing in flux_err, over all values of flux_err.
C12_MonotoneInFluxErr ==
    UncReturned => \A e \in ErrProbe : OrderedWith(e)

\* C12 (amended): the returned flux uncertainty is non-decreasing in flux_err
\* over the non-negative values of flux_err.
C12_MonotoneInNonNegativeFluxErr ==
    UncReturned => \A e \in ErrProbe : e >= 0 => OrderedWith(e)

\* C12 witness: an SDSS call returned, and the same call with a larger flux
\* error returns strictly more
C12_Witness ==
    /\ UncReturned
    /\ call.survey = "SDSS"
    /\ call.flux_err = 1000
    /\ IsFin(result.val) /\ IsFin(UncAt(3160))
    /\ result.val.v < UncAt(3160).v

\* ------------------------------------------------------- the header's frame
\* the functions that take the caller's header mapping
HeaderOps ==
    {"get_image_gain", "get_image_readnoise", "get_image_exptime",
     "uncertainty_calculation", "magnitude_calculation"}

\* the mapping a has the keys of b, each with b's value
SameMapping(a, b) ==
    /\ DOMAIN a = DOMAIN b
    /\ \A k \in DOMAIN b : a[k] = b[k]

C13_WitnessFailed ==
    /\ pc = "done"
    /\ call.op = "magnitude_calculation"
    /\ ~result.ok
    /\ unc_arg.called
    /\ header_in # NoHeader
    /\ SameMapping(header, header_in)

\* --------------------------------------------- filter and spectrum overlap
\* integrate_filter has ended on well-formed arrays whose wavelength ranges do
\* not overlap: the spectrum ends before the filter begins or begins after
\* the filter ends
NoOverlapCall ==
    /\ pc = "done"
    /\ call.op = "integrate_filter"
    /\ Len(mem.spectrum_flux) = Len(mem.spectrum_wave)
    /\ Len(mem.filter_response) = Len(mem.filter_wave)
    /\ \/ mem.spectrum_wave[Len(mem.spectrum_wave)] < mem.filter_wave[1]
       \/ mem.spectrum_wave[1] > mem.filter_wave[Len(mem.filter_wave)]

\* the filter's response is zero at every sample
ZeroResponse ==
    \A i \in 1..Len(mem.filter_response) : mem.filter_response[i] = 0

\* C14 (as claimed): integrate_filter called with a spectrum whose wavelength
\* range does not overlap the filter's support fails with an error or returns
\* NaN; it never returns a finite flux density.
C14_NoOverlapFailsOrNaN ==
    NoOverlapCall => (~result.ok \/ result.val.k = "nan")

\* C14 (amended): without overlap integrate_filter does not fail; it returns
\* the finite flux density 0.0, and NaN only when the filter's response is
\* zero everywhere, so that the filter's own integral is zero.
C14_NoOverlapReturnsZero ==
    NoOverlapCall =>
        /\ result.ok
        /\ IF ZeroResponse THEN result.val.k = "nan"
           ELSE IsFin(result.val) /\ result.val.v = 0

\* C14 witness: a spectrum on wavelengths 1..3 with non-zero flux and a filter
\* on 4..7 with a non-zero response returned 0.0
C14_Witness ==
    /\ NoOverlapCall
    /\ mem.spectrum_wave = <<1, 2, 3>>
    /\ mem.spectrum_flux = <<1, 3, 5>>
    /\ mem.filter_wave = <<4, 5, 6, 7>>
    /\ mem.filter_response = <<2000, 8000, 10000, 5000>>
    /\ result.ok
    /\ IsFin(result.val)
    /\ result.val.v = 0

\* ------------------------------------------------ adapt_aperture's argument
AdaptDone == pc = "done" /\ call.op = "adapt_aperture"

\* the caller's objects array and the returned array, as they are in memory
CallerObjects == mem.bufs[mem.objects]
ReturnedObjects == mem.bufs[result.val.objects_]

ObjectFields == {"x", "y", "a", "b", "theta"}

\* C15: adapt_aperture does not modify its input: after the call, for either
\* value of flip, every field (x, y, a, b, theta) of every element of the
\* objects array passed in has its original value, and the transformed
\* geometry is found only in the returned copy, a different array.
C15_InputUnmodified ==
    AdaptDone =>
        /\ Len(CallerObjects) = Len(mem.before)
        /\ \A i \in 1..Len(mem.before) : \A f \in ObjectFields :
              CallerObjects[i][f] = mem.before[i][f]
        /\ result.ok
        /\ result.val.objects_ # mem.objects
        /\ Len(ReturnedObjects) = Len(mem.before)
        /\ \A i \in 1..Len(mem.before) :
              /\ ReturnedObjects[i].a
                    = (mem.before[i].a * mem.img_wcs.num) \div mem.img_wcs.den
              /\ ReturnedObjects[i].theta
                    = IF mem.flip
                      THEN -(mem.before[i].theta + mem.img_wcs.rot)
                      ELSE mem.before[i].theta + mem.img_wcs.rot

\* C15 witness: a flipped call on two objects returned a copy whose first
\* object has another semi-major axis and the opposite orientation, while the
\* caller's first object is as it was
C15_Witness ==
    /\ AdaptDone
    /\ mem.flip
    /\ Len(mem.before) = 2
    /\ mem.before[1].theta = 45
    /\ mem.before[1].a = 4
    /\ ReturnedObjects[1].theta = -45
    /\ ReturnedObjects[1].a = 8
    /\ CallerObjects[1].theta = 45
    /\ CallerObjects[1].a = 4

\* ------------------------------------------------- SDSS gain, dark variance
\* uncertainty_calculation has ended for an SDSS frame: a filter of ugriz, a
\* CAMCOL of 1..6 and a RUN in the header, a positive flux
SdssCall ==
    /\ pc = "done"
    /\ call.op = "uncertainty_calculation"
    /\ call.survey = "SDSS"
    /\ call.filt \in {f_u, f_g, f_r, f_i, f_z}
    /\ header # NoHeader
    /\ {"CAMCOL", "RUN"} \subseteq DOMAIN header
    /\ header["CAMCOL"] \in 1..6
    /\ call.flux > 0

\* the gain (1/1000) and the dark variance (1/MS) of the claim: the tables'
\* entries for (filter, CAMCOL) but for the five overrides after the runs
\* 1100 and 1500
ClaimedGain ==
    IF call.filt = f_u /\ header["CAMCOL"] = 2 /\ header["RUN"] > 1100
    THEN 1825
    ELSE DictGet(gain_dict, call.filt)[header["CAMCOL"]]

ClaimedDarkVariance ==
    CASE call.filt = f_i /\ header["RUN"] > 1500 /\ header["CAMCOL"] = 2
            -> 62500
      [] call.filt = f_i /\ header["RUN"] > 1500 /\ header["CAMCOL"] = 4
            -> 75625
      [] call.filt = f_z /\ header["RUN"] > 1500 /\ header["CAMCOL"] = 4
            -> 126025
      [] call.filt = f_z /\ header["RUN"] > 1500 /\ header["CAMCOL"] = 5
            -> 21025
      [] OTHER -> DictGet(dv_dict, call.filt)[header["CAMCOL"]]

\* the combined magnitude error with the gain g and the dark variance dv:
\* sqrt(base^2 + (1.0857 * sqrt(dv + flux/g) / flux)^2)
SdssErrorWith(g, dv) ==
    sdss_term(utrace.base, unc_arg.flux, [err |-> "none", gain |-> g, dv |-> dv])

\* C16: for SDSS, uncertainty_calculation takes the gain and the dark variance
\* from the tables by (filter, CAMCOL), for every filter of ugriz, CAMCOL of
\* 1..6 and RUN, except: gain 1.825 for u, CAMCOL 2, RUN > 1100; dark variance
\* 6.25 (CAMCOL 2) or 7.5625 (CAMCOL 4) for i and RUN > 1500; 12.6025
\* (CAMCOL 4) or 2.1025 (CAMCOL 5) for z and RUN > 1500. At RUN 1100 and 1500
\* the table values are used, and the gain 1.0 of get_image_gain is not used.
C16_SdssGainAndDarkVariance ==
    SdssCall =>
        /\ sdss_gain_dv(call.filt, header)
              = [err |-> "none", gain |-> ClaimedGain,
                 dv |-> ClaimedDarkVariance]
        /\ get_image_gain(header, "SDSS") = PyF(100)
        /\ utrace.mag_err = SdssErrorWith(ClaimedGain, ClaimedDarkVariance)
        /\ utrace.mag_err # SdssErrorWith(1000, ClaimedDarkVariance)
        /\ result.ok

\* C16 witness: an i-band frame of CAMCOL 2 at RUN 1500 exactly was given the
\* table's dark variance 5.76, not the override
C16_Witness ==
    /\ SdssCall
    /\ call.filt = f_i
    /\ header["CAMCOL"] = 2
    /\ header["RUN"] = 1500
    /\ sdss_gain_dv(call.filt, header).dv = 57600
    /\ result.ok

\* an override applied: u, CAMCOL 2, RUN 1101 used the gain 1.825
C16_WitnessOverride ==
    /\ SdssCall
    /\ call.filt = f_u
    /\ header["CAMCOL"] = 2
    /\ header["RUN"] = 1101
    /\ sdss_gain_dv(call.filt, header).gain = 1825
    /\ utrace.mag_err # SdssErrorWith(1595, ClaimedDarkVariance)

\* --------------------------------------------------- the base term is kept
\* the base term 1.0857 * |flux_err| / flux of the returned call (1/MS)
BaseTerm == AbsI(utrace.base.v)

\* the combined magnitude error is at least the base term, and the returned
\* flux error changes when flux_err is replaced by 0
KeepsBaseTerm ==
    /\ IsFin(utrace.mag_err)
    /\ utrace.mag_err.v >= BaseTerm
    /\ UncAt(0) # result.val

\* C17 (as claimed): for every supported survey and flux > 0 the combined
\* magnitude error of uncertainty_calculation is at least the base term
\* 1.0857*|flux_err|/flux; every survey branch only adds terms in quadrature
\* to the base term, so the result always depends on flux_err.
C17_BaseTermKept ==
    UncReturned => KeepsBaseTerm

\* C17 (amended): this holds for every supported survey but 2MASS, whose
\* branch replaces the magnitude error by 1.0857/SNR and does not read
\* flux_err. (The WISE and unWISE branch replaces it too, by
\* sqrt(1.179)*sigma_src/F_src, which is never below the base term.)
C17_BaseTermKeptNot2MASS ==
    (UncReturned /\ call.survey # "2MASS") => KeepsBaseTerm

\* C17 witness: a DES call returned a magnitude error above its base term
C17_Witness ==
    /\ UncReturned
    /\ call.survey = "DES"
    /\ BaseTerm > 0
    /\ utrace.mag_err.v > BaseTerm
    /\ UncAt(0) # result.val

\* ------------------------------------------------ LegacySurvey placeholders
\* the per-filter zero-point uncertainty of LegacySurvey (1/MS)
LegacyZpUnc ==
    CASE call.filt = f_g -> 50
      [] call.filt = f_r -> 39
      [] call.filt = f_i -> 43
      [] call.filt = f_z -> 55
      [] OTHER -> 0

\* uncertainty_calculation returned for LegacySurvey and one of its filters
LegacyReturned ==
    /\ UncReturned
    /\ call.survey = "LegacySurvey"
    /\ call.filt \in {f_g, f_r, f_i, f_z}

\* C18 (as claimed): for LegacySurvey the placeholder gain, read noise and
\* exposure time contribute nothing to the propagated error: the magnitude
\* error is the quadrature sum of only the base term and the per-filter
\* zero-point uncertainty, independent of the aperture area.
C18_LegacyOnlyBaseAndZp ==
    LegacyReturned =>
        /\ utrace.mag_err = Quad(utrace.base, PyF(LegacyZpUnc))
        /\ \A a \in AreaVals :
              uncertainty_calculation(unc_arg.flux, unc_arg.flux_err,
                                      call.survey, call.filt,
                                      Arg(a, call.npy), header,
                                      Arg(call.bkg_rms, call.npy))
                  = result.val

\* the part that holds: the extractors return the placeholders 1, 1.0 and 1.0
\* for LegacySurvey, whatever the header
C18_PlaceholdersReturned ==
    (pc = "done" /\ call.survey = "LegacySurvey" /\ call.op \in ExtractorOps)
    => (result.ok /\ result.val.v = 100)

====
